---- MODULE Spec2Model ----
(***************************************************************************)
(* darklua: the AST walker (process/visitors.rs), the processor interface  *)
(* (process/node_processor.rs), the remove_function_call_parens rule       *)
(* (rules/call_parens.rs) and the rule registry (rules/mod.rs).            *)
(*                                                                         *)
(* A node is a record with a field kind (the enum variant) and one field   *)
(* per child.  A child that is a Vec or an Option is a sequence (an Option *)
(* has length 0 or 1).  A path is a sequence of <<field, index>> pairs;    *)
(* index 0 selects the field itself, index i >= 1 its i-th element.        *)
(***************************************************************************)
EXTENDS Integers, Sequences, FiniteSets, TLC

VARIABLES
    input,      \* the block as it was handed to visit_block
    tree,       \* the block being walked (hooks of a mutating processor change it)
    processor,  \* the processor handed to visit_block
    stack,      \* pending visits of the recursion, innermost first
    log,        \* the hooks delivered so far: <<hook, path>>, in order
    given,      \* a FunctionCall as it was handed to process_function_call
    call,       \* that FunctionCall now
    hooked,     \* whether process_function_call has run on call
    rules,      \* the result of get_default_rules, <<>> before the call
    operation,  \* a function of the registry, of Block or of LocalAssignStatement:
                \* the call with its arguments and, once it has run, its result
    a_block,    \* the Block the operations of nodes/block.rs act on
    local_assign \* the LocalAssignStatement the operations of local_assign.rs act on

vars ==
    <<input, tree, processor, stack, log, given, call, hooked, rules, operation,
      a_block, local_assign>>

-----------------------------------------------------------------------------
(* Bounds *)

\* longest list (arguments of a tuple, entries of a table, returned
\* expressions, variables of an assignment) of the generated trees
MaxLen == 2

-----------------------------------------------------------------------------
(* Nodes *)

None == <<>>
Some(x) == <<x>>

Block(statements, last_statement) ==
    [kind |-> "Block", statements |-> statements, last_statement |-> last_statement]

Break == [kind |-> "Break"]
Return(expressions) == [kind |-> "Return", expressions |-> expressions]

Nil == [kind |-> "Nil"]
True == [kind |-> "True"]
False == [kind |-> "False"]
VariableArguments == [kind |-> "VariableArguments"]
Number(n) == [kind |-> "Number", value |-> n]
String(s) == [kind |-> "String", value |-> s]
Identifier(name) == [kind |-> "Identifier", name |-> name]
Binary(left, right) == [kind |-> "Binary", left |-> left, right |-> right]
Unary(expression) == [kind |-> "Unary", expression |-> expression]
Parenthese(expression) == [kind |-> "Parenthese", expression |-> expression]
Function(block) == [kind |-> "Function", block |-> block]
FunctionCall(prefix, arguments) ==
    [kind |-> "Call", prefix |-> prefix, arguments |-> arguments]
Field(prefix, field) == [kind |-> "Field", prefix |-> prefix, field |-> field]
Index(prefix, index) == [kind |-> "Index", prefix |-> prefix, index |-> index]
Table(entries) == [kind |-> "Table", entries |-> entries]
LUX(expression) == [kind |-> "LUX", expression |-> expression]

\* Arguments::String and Arguments::Table hold a StringExpression and a
\* TableExpression: the same records as Expression::String and ::Table
Tuple(expressions) == [kind |-> "Tuple", expressions |-> expressions]

EntryField(field, value) == [kind |-> "Field", field |-> field, value |-> value]
EntryIndex(key, value) == [kind |-> "Index", key |-> key, value |-> value]
EntryValue(value) == [kind |-> "Value", value |-> value]

Assign(variables, values) ==
    [kind |-> "Assign", variables |-> variables, values |-> values]
Do(block) == [kind |-> "Do", block |-> block]
FunctionStatement(name, block) ==
    [kind |-> "Function",
     function_name |-> [kind |-> "FunctionName", identifier |-> name],
     block |-> block]
GenericFor(identifiers, expressions, block) ==
    [kind |-> "GenericFor", identifiers |-> identifiers,
     expressions |-> expressions, block |-> block]
Branch(condition, block) == [kind |-> "Branch", condition |-> condition, block |-> block]
If(branches, else_block) ==
    [kind |-> "If", branches |-> branches, else_block |-> else_block]
LocalAssign(variables, values, tokens) ==
    [kind |-> "LocalAssign", variables |-> variables, values |-> values,
     tokens |-> tokens]
LocalFunction(identifier, block) ==
    [kind |-> "LocalFunction", identifier |-> identifier, block |-> block]
NumericFor(identifier, start, end, step, block) ==
    [kind |-> "NumericFor", identifier |-> identifier, start |-> start,
     end |-> end, step |-> step, block |-> block]
Repeat(block, condition) == [kind |-> "Repeat", block |-> block, condition |-> condition]
While(block, condition) == [kind |-> "While", block |-> block, condition |-> condition]

\* markup nodes
LUXElementOf(element) == [kind |-> "LUXElement", element |-> element]
LUXFragmentOf(fragment) == [kind |-> "LUXFragment", fragment |-> fragment]
Element(attributes, children) ==
    [kind |-> "Element", attributes |-> attributes, children |-> children]
SelfClosingElement(attributes) ==
    [kind |-> "SelfClosingElement", attributes |-> attributes]
Fragment(children) == [kind |-> "Fragment", children |-> children]
ExpandedExpression(expression) ==
    [kind |-> "ExpandedExpression", expression |-> expression]
ChildExpression(expression) == [kind |-> "Expression", expression |-> expression]
Named(value) == [kind |-> "Named", value |-> value]
Spread(expression) == [kind |-> "Spread", expression |-> expression]
DoubleQuoteString == [kind |-> "DoubleQuoteString"]
SingleQuoteString == [kind |-> "SingleQuoteString"]
LuaExpression(expression) == [kind |-> "LuaExpression", expression |-> expression]

\* no operation of the registry, of Block or of LocalAssignStatement is called
NoOperation == [fn |-> "none"]

-----------------------------------------------------------------------------
(* Paths *)

F(field) == <<field, 0>>
At(field, i) == <<field, i>>

Child(node, seg) == IF seg[2] = 0 THEN node[seg[1]] ELSE node[seg[1]][seg[2]]

RECURSIVE Get(_, _)
Get(node, path) ==
    IF path = <<>> THEN node ELSE Get(Child(node, Head(path)), Tail(path))

RECURSIVE Set(_, _, _)
Set(node, path, new) ==
    IF path = <<>> THEN new
    ELSE LET seg == Head(path) IN
         IF seg[2] = 0
         THEN [node EXCEPT ![seg[1]] = Set(@, Tail(path), new)]
         ELSE [node EXCEPT ![seg[1]][seg[2]] = Set(@, Tail(path), new)]

-----------------------------------------------------------------------------
(* Processors *)

\* process_function_call without the expressions.len() == 1 guard
process_function_call_any_len(c) ==
    LET arguments == c.arguments IN
    IF arguments.kind = "Tuple" /\ Len(arguments.expressions) >= 1
    THEN LET expression == arguments.expressions[1] IN
         CASE expression.kind = "String" ->
                [c EXCEPT !.arguments = String(expression.value)]
           [] expression.kind = "Table" ->
                [c EXCEPT !.arguments = Table(expression.entries)]
           [] OTHER -> c
    ELSE c

\* process_function_call that also takes a parenthesized expression out of
\* its parentheses
process_function_call_unwrap(c) ==
    LET arguments == c.arguments IN
    IF arguments.kind = "Tuple" /\ Len(arguments.expressions) = 1
    THEN LET expression == arguments.expressions[1] IN
         CASE expression.kind = "String" ->
                [c EXCEPT !.arguments = String(expression.value)]
           [] expression.kind = "Table" ->
                [c EXCEPT !.arguments = Table(expression.entries)]
           [] expression.kind = "Parenthese" ->
                [c EXCEPT !.arguments = Tuple(<<expression.expression>>)]
           [] OTHER -> c
    ELSE c

\* rules/call_parens.rs, Processor::process_function_call
process_function_call(c) ==
    LET arguments == c.arguments IN
    IF arguments.kind = "Tuple" /\ Len(arguments.expressions) = 1
    THEN LET expression == arguments.expressions[1] IN
         CASE expression.kind = "String" ->
                [c EXCEPT !.arguments = String(expression.value)]
           [] expression.kind = "Table" ->
                [c EXCEPT !.arguments = Table(expression.entries)]
           [] OTHER -> c
    ELSE c

\* what a NodeProcessorMut implementation may do with the node it is handed:
\* an arbitrary in-place change of that node.  The model's arbitrary
\* processor clears or refills a block, swaps the variant of a statement or
\* of an expression, and replaces the children of a call.
NewStatement == Do(Block(<<>>, Some(Return(<<Identifier("new")>>))))
NewExpression == Unary(Identifier("new"))
NewArguments == Tuple(<<Identifier("new")>>)

NodeProcessorMut(hook, node) ==
    CASE hook = "process_block" /\ node.statements # <<>> ->
            {node, Block(<<>>, None), [node EXCEPT !.statements = <<NewStatement>>]}
      [] hook = "process_statement" /\ node.kind = "LocalFunction" ->
            {node, NewStatement}
      [] hook = "process_expression" /\ node.kind \in {"Number", "Parenthese"} ->
            {node, NewExpression}
      [] hook = "process_function_call" /\ node.arguments.kind = "String" ->
            {node, [node EXCEPT !.arguments = NewArguments]}
      [] OTHER -> {node}

ReadOnlyProcessors == {"NodeProcessor"}
MutatingProcessors == {"RemoveFunctionCallParens", "NodeProcessorMut"}
Processors == ReadOnlyProcessors \cup MutatingProcessors

\* NodeVisitorMut hands the hook a &mut to the node
DefaultVisitorMut(hook, node) ==
    CASE processor = "RemoveFunctionCallParens" ->
            IF hook = "process_function_call"
            THEN {process_function_call(node)} ELSE {node}
      [] processor = "NodeProcessorMut" -> NodeProcessorMut(hook, node)

\* the nodes a hook may leave behind: NodeVisitor hands a NodeProcessor a
\* shared reference, whose default hooks have empty bodies
Deliver(hook, node) ==
    IF processor \in ReadOnlyProcessors THEN {node} ELSE DefaultVisitorMut(hook, node)

-----------------------------------------------------------------------------
(* The walker: process/visitors.rs *)

Task(fn, path) == [fn |-> fn, path |-> path]
Sub(path, seg) == path \o <<seg>>
Each(fn, path, field, n) == [i \in 1..n |-> Task(fn, Sub(path, At(field, i)))]
Opt(fn, path, field, option) ==
    IF option = None THEN <<>> ELSE <<Task(fn, Sub(path, At(field, 1)))>>

Visiting(fn) == stack # <<>> /\ Head(stack).fn = fn
Here == Head(stack).path
Node == Get(tree, Here)
Hook(hook) == <<hook, Here>>

\* one visit function runs: the node is left as new, the hooks are delivered
\* and the recursive visits it makes are pending, in order
Step(new, hooks, visits) ==
    /\ tree' = Set(tree, Here, new)
    /\ log' = log \o hooks
    /\ stack' = visits \o Tail(stack)
    /\ UNCHANGED <<input, processor, given, call, hooked, rules, operation, a_block,
                 local_assign>>

\* visit_block with the terminal statement handled before the statements
visit_block_last_first ==
    /\ Visiting("visit_block")
    /\ \E block \in Deliver("process_block", Node) :
         Step(block, <<Hook("process_block")>>,
              Opt("last_statement", Here, "last_statement", block.last_statement)
              \o Each("visit_statement", Here, "statements", Len(block.statements)))

visit_block ==
    /\ Visiting("visit_block")
    /\ \E block \in Deliver("process_block", Node) :
         Step(block, <<Hook("process_block")>>,
              Each("visit_statement", Here, "statements", Len(block.statements))
              \o Opt("last_statement", Here, "last_statement", block.last_statement))

\* visit_block with mutate_last_statement().take(): the Option is moved out
\* of the block instead of borrowed
visit_block_last_statement_take ==
    /\ Visiting("last_statement")
    /\ tree' = Set(tree, SubSeq(Here, 1, Len(Here) - 1) \o <<F("last_statement")>>, None)
    /\ log' = log \o <<Hook("process_last_statement")>>
    /\ stack' = Tail(stack)
    /\ UNCHANGED <<input, processor, given, call, hooked, rules, operation, a_block,
                 local_assign>>

\* visit_block, the if let Some(last_statement) part
visit_block_last_statement ==
    /\ Visiting("last_statement")
    /\ \E last_statement \in Deliver("process_last_statement", Node) :
         Step(last_statement, <<Hook("process_last_statement")>>,
              IF last_statement.kind = "Return"
              THEN Each("visit_expression", Here, "expressions",
                        Len(last_statement.expressions))
              ELSE <<>>)

StatementVisitor(statement) ==
    CASE statement.kind = "Assign" -> "visit_assign_statement"
      [] statement.kind = "Do" -> "visit_do_statement"
      [] statement.kind = "Call" -> "visit_function_call"
      [] statement.kind = "Function" -> "visit_function_statement"
      [] statement.kind = "GenericFor" -> "visit_generic_for"
      [] statement.kind = "If" -> "visit_if_statement"
      [] statement.kind = "LocalAssign" -> "visit_local_assign"
      [] statement.kind = "LocalFunction" -> "visit_local_function"
      [] statement.kind = "NumericFor" -> "visit_numeric_for"
      [] statement.kind = "Repeat" -> "visit_repeat_statement"
      [] statement.kind = "While" -> "visit_while_statement"

\* visit_statement matching on the statement as it was before process_statement
visit_statement_stale ==
    /\ Visiting("visit_statement")
    /\ \E statement \in Deliver("process_statement", Node) :
         Step(statement, <<Hook("process_statement")>>,
              <<Task(StatementVisitor(Node), Here)>>)

visit_statement ==
    /\ Visiting("visit_statement")
    /\ \E statement \in Deliver("process_statement", Node) :
         Step(statement, <<Hook("process_statement")>>,
              <<Task(StatementVisitor(statement), Here)>>)

\* ExpressionHook with the String arm left empty
ExpressionHook_no_string(expression) ==
    CASE expression.kind = "Binary" -> "process_binary_expression"
      [] expression.kind = "Identifier" -> "process_variable_expression"
      [] expression.kind = "Number" -> "process_number_expression"
      [] expression.kind = "Unary" -> "process_unary_expression"
      [] OTHER -> ""

\* visit_expression: the hook its match arm delivers itself, "" when it
\* delivers none (the arm calls a visit function, or is empty)
ExpressionHook(expression) ==
    CASE expression.kind = "Binary" -> "process_binary_expression"
      [] expression.kind = "Identifier" -> "process_variable_expression"
      [] expression.kind = "Number" -> "process_number_expression"
      [] expression.kind = "String" -> "process_string_expression"
      [] expression.kind = "Unary" -> "process_unary_expression"
      [] OTHER -> ""

\* visit_expression that visits a parenthesized expression on the Parenthese
\* node itself, not on the expression inside
ExpressionVisits_same_node(expression) ==
    CASE expression.kind = "Binary" ->
            <<Task("visit_expression", Sub(Here, F("left"))),
              Task("visit_expression", Sub(Here, F("right")))>>
      [] expression.kind = "Call" -> <<Task("visit_function_call", Here)>>
      [] expression.kind = "Field" -> <<Task("visit_field_expression", Here)>>
      [] expression.kind = "Function" -> <<Task("visit_function_expression", Here)>>
      [] expression.kind = "Index" -> <<Task("visit_index_expression", Here)>>
      [] expression.kind = "Parenthese" -> <<Task("visit_expression", Here)>>
      [] expression.kind = "Table" -> <<Task("visit_table", Here)>>
      [] expression.kind = "Unary" ->
            <<Task("visit_expression", Sub(Here, F("expression")))>>
      [] expression.kind = "LUX" ->
            <<Task("visit_lux_expression", Sub(Here, F("expression")))>>
      [] OTHER -> <<>>

\* visit_expression: the visits its match arm makes
ExpressionVisits(expression) ==
    CASE expression.kind = "Binary" ->
            <<Task("visit_expression", Sub(Here, F("left"))),
              Task("visit_expression", Sub(Here, F("right")))>>
      [] expression.kind = "Call" -> <<Task("visit_function_call", Here)>>
      [] expression.kind = "Field" -> <<Task("visit_field_expression", Here)>>
      [] expression.kind = "Function" -> <<Task("visit_function_expression", Here)>>
      [] expression.kind = "Index" -> <<Task("visit_index_expression", Here)>>
      [] expression.kind = "Parenthese" ->
            <<Task("visit_expression", Sub(Here, F("expression")))>>
      [] expression.kind = "Table" -> <<Task("visit_table", Here)>>
      [] expression.kind = "Unary" ->
            <<Task("visit_expression", Sub(Here, F("expression")))>>
      [] expression.kind = "LUX" ->
            <<Task("visit_lux_expression", Sub(Here, F("expression")))>>
      [] OTHER -> <<>>

visit_expression ==
    /\ Visiting("visit_expression")
    /\ \E e \in Deliver("process_expression", Node) :
         IF ExpressionHook(e) = ""
         THEN Step(e, <<Hook("process_expression")>>, ExpressionVisits(e))
         ELSE \E expression \in Deliver(ExpressionHook(e), e) :
                Step(expression,
                     <<Hook("process_expression"), Hook(ExpressionHook(e))>>,
                     ExpressionVisits(expression))

visit_function_expression ==
    /\ Visiting("visit_function_expression")
    /\ \E function \in Deliver("process_function_expression", Node) :
         Step(function, <<Hook("process_function_expression")>>,
              <<Task("visit_block", Sub(Here, F("block")))>>)

\* visit_assign_statement with the values visited before the variables
visit_assign_statement_values_first ==
    /\ Visiting("visit_assign_statement")
    /\ \E statement \in Deliver("process_assign_statement", Node) :
         Step(statement, <<Hook("process_assign_statement")>>,
              Each("visit_expression", Here, "values", Len(statement.values))
              \o Each("variable", Here, "variables", Len(statement.variables)))

visit_assign_statement ==
    /\ Visiting("visit_assign_statement")
    /\ \E statement \in Deliver("process_assign_statement", Node) :
         Step(statement, <<Hook("process_assign_statement")>>,
              Each("variable", Here, "variables", Len(statement.variables))
              \o Each("visit_expression", Here, "values", Len(statement.values)))

\* visit_assign_statement, the closure run on each variable
visit_assign_statement_variable ==
    /\ Visiting("variable")
    /\ CASE Node.kind = "Identifier" ->
              \E identifier \in Deliver("process_variable_expression", Node) :
                  Step(identifier, <<Hook("process_variable_expression")>>, <<>>)
         [] Node.kind = "Field" ->
              Step(Node, <<>>, <<Task("visit_field_expression", Here)>>)
         [] Node.kind = "Index" ->
              Step(Node, <<>>, <<Task("visit_index_expression", Here)>>)

visit_do_statement ==
    /\ Visiting("visit_do_statement")
    /\ \E statement \in Deliver("process_do_statement", Node) :
         Step(statement, <<Hook("process_do_statement")>>,
              <<Task("visit_block", Sub(Here, F("block")))>>)

visit_function_statement ==
    /\ Visiting("visit_function_statement")
    /\ \E statement \in Deliver("process_function_statement", Node) :
         \E name \in Deliver("process_variable_expression", statement.function_name) :
             Step([statement EXCEPT !.function_name = name],
                  <<Hook("process_function_statement"),
                    <<"process_variable_expression", Sub(Here, F("function_name"))>> >>,
                  <<Task("visit_block", Sub(Here, F("block")))>>)

visit_generic_for ==
    /\ Visiting("visit_generic_for")
    /\ \E statement \in Deliver("process_generic_for_statement", Node) :
         Step(statement, <<Hook("process_generic_for_statement")>>,
              Each("visit_expression", Here, "expressions", Len(statement.expressions))
              \o <<Task("visit_block", Sub(Here, F("block")))>>)

\* the visits of one branch of visit_if_statement
BranchVisits(path) ==
    <<Task("visit_expression", Sub(path, F("condition"))),
      Task("visit_block", Sub(path, F("block")))>>

RECURSIVE BranchesVisits(_, _, _)
BranchesVisits(path, i, n) ==
    IF i > n THEN <<>>
    ELSE BranchVisits(Sub(path, At("branches", i))) \o BranchesVisits(path, i + 1, n)

\* visit_if_statement without the visit of the else block
visit_if_statement_no_else ==
    /\ Visiting("visit_if_statement")
    /\ \E statement \in Deliver("process_if_statement", Node) :
         Step(statement, <<Hook("process_if_statement")>>,
              BranchesVisits(Here, 1, Len(statement.branches)))

visit_if_statement ==
    /\ Visiting("visit_if_statement")
    /\ \E statement \in Deliver("process_if_statement", Node) :
         Step(statement, <<Hook("process_if_statement")>>,
              BranchesVisits(Here, 1, Len(statement.branches))
              \o Opt("visit_block", Here, "else_block", statement.else_block))

visit_local_assign ==
    /\ Visiting("visit_local_assign")
    /\ \E statement \in Deliver("process_local_assign_statement", Node) :
         Step(statement, <<Hook("process_local_assign_statement")>>,
              Each("visit_expression", Here, "values", Len(statement.values)))

visit_local_function ==
    /\ Visiting("visit_local_function")
    /\ \E statement \in Deliver("process_local_function_statement", Node) :
         Step(statement, <<Hook("process_local_function_statement")>>,
              <<Task("visit_block", Sub(Here, F("block")))>>)

visit_numeric_for ==
    /\ Visiting("visit_numeric_for")
    /\ \E statement \in Deliver("process_numeric_for_statement", Node) :
         Step(statement, <<Hook("process_numeric_for_statement")>>,
              <<Task("visit_expression", Sub(Here, F("start"))),
                Task("visit_expression", Sub(Here, F("end")))>>
              \o Opt("visit_expression", Here, "step", statement.step)
              \o <<Task("visit_block", Sub(Here, F("block")))>>)

visit_repeat_statement ==
    /\ Visiting("visit_repeat_statement")
    /\ \E statement \in Deliver("process_repeat_statement", Node) :
         Step(statement, <<Hook("process_repeat_statement")>>,
              <<Task("visit_expression", Sub(Here, F("condition"))),
                Task("visit_block", Sub(Here, F("block")))>>)

visit_while_statement ==
    /\ Visiting("visit_while_statement")
    /\ \E statement \in Deliver("process_while_statement", Node) :
         Step(statement, <<Hook("process_while_statement")>>,
              <<Task("visit_expression", Sub(Here, F("condition"))),
                Task("visit_block", Sub(Here, F("block")))>>)

visit_field_expression ==
    /\ Visiting("visit_field_expression")
    /\ \E field \in Deliver("process_field_expression", Node) :
         Step(field, <<Hook("process_field_expression")>>,
              <<Task("visit_prefix_expression", Sub(Here, F("prefix")))>>)

visit_index_expression ==
    /\ Visiting("visit_index_expression")
    /\ \E index \in Deliver("process_index_expression", Node) :
         Step(index, <<Hook("process_index_expression")>>,
              <<Task("visit_prefix_expression", Sub(Here, F("prefix"))),
                Task("visit_expression", Sub(Here, F("index")))>>)

visit_function_call ==
    /\ Visiting("visit_function_call")
    /\ \E c \in Deliver("process_function_call", Node) :
         Step(c, <<Hook("process_function_call")>>,
              <<Task("visit_prefix_expression", Sub(Here, F("prefix"))),
                Task("visit_arguments", Sub(Here, F("arguments")))>>)

\* visit_arguments without the Arguments::Table arm
visit_arguments_no_table ==
    /\ Visiting("visit_arguments")
    /\ CASE Node.kind = "String" ->
              \E string \in Deliver("process_string_expression", Node) :
                  Step(string, <<Hook("process_string_expression")>>, <<>>)
         [] Node.kind = "Table" -> Step(Node, <<>>, <<>>)
         [] Node.kind = "Tuple" ->
              Step(Node, <<>>,
                   Each("visit_expression", Here, "expressions", Len(Node.expressions)))

visit_arguments ==
    /\ Visiting("visit_arguments")
    /\ CASE Node.kind = "String" ->
              \E string \in Deliver("process_string_expression", Node) :
                  Step(string, <<Hook("process_string_expression")>>, <<>>)
         [] Node.kind = "Table" -> Step(Node, <<>>, <<Task("visit_table", Here)>>)
         [] Node.kind = "Tuple" ->
              Step(Node, <<>>,
                   Each("visit_expression", Here, "expressions", Len(Node.expressions)))

\* the visits of one entry of visit_table
EntryVisits(path, entry) ==
    IF entry.kind = "Index"
    THEN <<Task("visit_expression", Sub(path, F("key"))),
           Task("visit_expression", Sub(path, F("value")))>>
    ELSE <<Task("visit_expression", Sub(path, F("value")))>>

RECURSIVE EntriesVisits(_, _, _)
EntriesVisits(path, entries, i) ==
    IF i > Len(entries) THEN <<>>
    ELSE EntryVisits(Sub(path, At("entries", i)), entries[i])
         \o EntriesVisits(path, entries, i + 1)

visit_table ==
    /\ Visiting("visit_table")
    /\ \E table \in Deliver("process_table_expression", Node) :
         Step(table, <<Hook("process_table_expression")>>,
              EntriesVisits(Here, table.entries, 1))

visit_prefix_expression ==
    /\ Visiting("visit_prefix_expression")
    /\ \E prefix \in Deliver("process_prefix_expression", Node) :
         CASE prefix.kind = "Call" ->
                Step(prefix, <<Hook("process_prefix_expression")>>,
                     <<Task("visit_function_call", Here)>>)
           [] prefix.kind = "Field" ->
                Step(prefix, <<Hook("process_prefix_expression")>>,
                     <<Task("visit_field_expression", Here)>>)
           [] prefix.kind = "Identifier" ->
                \E identifier \in Deliver("process_variable_expression", prefix) :
                    Step(identifier,
                         <<Hook("process_prefix_expression"),
                           Hook("process_variable_expression")>>,
                         <<>>)
           [] prefix.kind = "Index" ->
                Step(prefix, <<Hook("process_prefix_expression")>>,
                     <<Task("visit_index_expression", Here)>>)
           [] prefix.kind = "Parenthese" ->
                Step(prefix, <<Hook("process_prefix_expression")>>,
                     <<Task("visit_expression", Sub(Here, F("expression")))>>)

visit_lux_expression ==
    /\ Visiting("visit_lux_expression")
    /\ \E expression \in Deliver("process_lux_expression", Node) :
         Step(expression, <<Hook("process_lux_expression")>>,
              IF expression.kind = "LUXElement"
              THEN <<Task("visit_lux_element", Sub(Here, F("element")))>>
              ELSE <<Task("visit_lux_fragment", Sub(Here, F("fragment")))>>)

visit_lux_element ==
    /\ Visiting("visit_lux_element")
    /\ \E e \in Deliver("process_lux_element", Node) :
         IF e.kind = "Element"
         THEN \E element \in Deliver("process_lux_open_close_element", e) :
                Step(element,
                     <<Hook("process_lux_element"), Hook("process_lux_open_close_element")>>,
                     Each("visit_lux_attribute", Here, "attributes", Len(element.attributes))
                     \o Each("child", Here, "children", Len(element.children)))
         ELSE \E element \in Deliver("process_lux_self_closing_element", e) :
                Step(element,
                     <<Hook("process_lux_element"),
                       Hook("process_lux_self_closing_element")>>,
                     Each("visit_lux_attribute", Here, "attributes", Len(element.attributes)))

\* visit_lux_element and visit_lux_fragment, the closure run on each child
visit_lux_children_child ==
    /\ Visiting("child")
    /\ \E child \in Deliver("process_lux_child", Node) :
         Step(child, <<Hook("process_lux_child")>>, <<Task("visit_lux_child", Here)>>)

visit_lux_fragment ==
    /\ Visiting("visit_lux_fragment")
    /\ \E fragment \in Deliver("process_lux_fragment", Node) :
         Step(fragment, <<Hook("process_lux_fragment")>>,
              Each("child", Here, "children", Len(fragment.children)))

visit_lux_child ==
    /\ Visiting("visit_lux_child")
    /\ \E child \in Deliver("process_lux_child", Node) :
         Step(child, <<Hook("process_lux_child")>>,
              CASE child.kind = "LUXElement" ->
                     <<Task("visit_lux_element", Sub(Here, F("element")))>>
                [] child.kind = "LUXFragment" ->
                     <<Task("visit_lux_fragment", Sub(Here, F("fragment")))>>
                [] child.kind = "ExpandedExpression" ->
                     <<Task("visit_expression", Sub(Here, F("expression")))>>
                [] child.kind = "Expression" ->
                     Opt("visit_expression", Here, "expression", child.expression))

visit_lux_attribute ==
    /\ Visiting("visit_lux_attribute")
    /\ \E attribute \in Deliver("process_lux_attribute", Node) :
         Step(attribute, <<Hook("process_lux_attribute")>>,
              IF attribute.kind = "Named"
              THEN Opt("visit_lux_attribute_value", Here, "value", attribute.value)
              ELSE <<Task("visit_expression", Sub(Here, F("expression")))>>)

visit_lux_attribute_value ==
    /\ Visiting("visit_lux_attribute_value")
    /\ \E value \in Deliver("process_lux_attribute_value", Node) :
         Step(value, <<Hook("process_lux_attribute_value")>>,
              CASE value.kind = "LuaExpression" ->
                     <<Task("visit_expression", Sub(Here, F("expression")))>>
                [] value.kind = "LUXElement" ->
                     <<Task("visit_lux_element", Sub(Here, F("element")))>>
                [] value.kind = "LUXFragment" ->
                     <<Task("visit_lux_fragment", Sub(Here, F("fragment")))>>
                [] OTHER -> <<>>)

Done == stack = <<>>

-----------------------------------------------------------------------------
(* The trees handed to visit_block *)

SeqsUpTo(S, n) == UNION {[1..k -> S] : k \in 0..n}
NonEmpty(seqs) == {s \in seqs : s # <<>>}

EmptyBlock == Block(<<>>, None)
BreakBlock == Block(<<>>, Some(Break))
ReturnBlock == Block(<<>>, Some(Return(<<True>>)))
Blocks0 == {EmptyBlock, BreakBlock, ReturnBlock}

Leaves ==
    {Nil, True, False, VariableArguments, Number(1), String("s"), Identifier("x")}

Prefix0 == Identifier("f")

Entries0 ==
    {EntryField("k", True), EntryIndex(String("s"), Number(1)),
     EntryValue(VariableArguments)}
Tables0 == {Table(entries) : entries \in SeqsUpTo(Entries0, MaxLen)}

Arguments0 ==
    {Tuple(expressions) : expressions \in SeqsUpTo({String("s"), Table(<<>>)}, MaxLen)}
    \cup {Tuple(<<True>>), Tuple(<<Parenthese(String("s"))>>), String("s"),
          Table(<<EntryValue(True)>>)}
Calls0 == {FunctionCall(Prefix0, arguments) : arguments \in Arguments0}

\* composite expressions over leaves
Expressions1 ==
    {Binary(l, r) : l \in {True, Number(1)}, r \in {True, Number(1)}}
    \cup {Unary(e) : e \in {True, Identifier("x")}}
    \cup {Parenthese(e) : e \in {String("s"), Nil}}
    \cup {Function(b) : b \in Blocks0}
    \cup Calls0
    \cup {Field(Prefix0, "k"), Index(Prefix0, String("s")), Index(Prefix0, Number(1))}
    \cup Tables0

Prefixes1 ==
    Calls0
    \cup {Field(Prefix0, "k"), Index(Prefix0, String("s")),
          Parenthese(True), Parenthese(String("s"))}

\* composite expressions with one composite child
Expressions2 ==
    {Unary(e) : e \in Expressions1}
    \cup {Parenthese(e) : e \in Expressions1}
    \cup {Binary(e, True) : e \in Expressions1}
    \cup {FunctionCall(Prefix0, Tuple(<<e>>)) : e \in Expressions1}
    \cup {FunctionCall(p, Tuple(<<>>)) : p \in Prefixes1}
    \cup {Field(p, "k") : p \in Prefixes1}
    \cup {Index(p, True) : p \in Prefixes1}
    \cup {Table(<<EntryValue(e)>>) : e \in Expressions1}
    \cup {FunctionCall(Prefix0, Tuple(<<Table(<<EntryValue(c)>>)>>)) : c \in Calls0}
    \cup {FunctionCall(Prefix0, Table(<<EntryIndex(c, c)>>)) : c \in Calls0}

\* markup
AttributeValues ==
    {DoubleQuoteString, SingleQuoteString, LuaExpression(True),
     LUXElementOf(SelfClosingElement(<<>>)), LUXFragmentOf(Fragment(<<>>))}
Attributes ==
    {Named(None), Spread(Identifier("x"))} \cup {Named(Some(v)) : v \in AttributeValues}
Attributes0 == {Named(Some(LuaExpression(True))), Spread(Identifier("x"))}
Children ==
    {LUXElementOf(SelfClosingElement(<<>>)), LUXFragmentOf(Fragment(<<>>)),
     ExpandedExpression(True), ChildExpression(None), ChildExpression(Some(Number(1)))}
Children0 == {ExpandedExpression(True), LUXFragmentOf(Fragment(<<>>))}
Elements1 ==
    {Element(attributes, children) :
        attributes \in SeqsUpTo(Attributes0, MaxLen),
        children \in SeqsUpTo(Children0, MaxLen)}
    \cup {Element(<<a>>, <<c>>) : a \in Attributes, c \in Children}
    \cup {SelfClosingElement(attributes) : attributes \in SeqsUpTo(Attributes, 1)}
Fragments1 ==
    {Fragment(children) : children \in SeqsUpTo(Children0, MaxLen)}
    \cup {Fragment(<<c>>) : c \in Children}
Children1 ==
    {LUXElementOf(e) : e \in Elements1} \cup {LUXFragmentOf(f) : f \in Fragments1}
LUXExpressions ==
    {LUX(LUXElementOf(e)) : e \in Elements1}
    \cup {LUX(LUXFragmentOf(f)) : f \in Fragments1}
    \cup {LUX(LUXFragmentOf(Fragment(<<c>>))) : c \in Children1}
    \cup {LUX(LUXElementOf(Element(<<>>, <<c>>))) : c \in Children1}

Expressions == Leaves \cup Expressions1 \cup Expressions2 \cup LUXExpressions

LocalAssignTokens ==
    [local |-> "local", equal |-> Some("="), variable_commas |-> <<",">>,
     value_commas |-> <<>>]

Variables0 == {Identifier("x"), Field(Prefix0, "k"), Index(Prefix0, True)}

Statements ==
    {Assign(variables, values) :
        variables \in NonEmpty(SeqsUpTo(Variables0, MaxLen)),
        values \in {<<True>>, <<String("s"), Number(1)>>}}
    \cup {Do(b) : b \in Blocks0}
    \cup {e \in Expressions1 \cup Expressions2 : e.kind = "Call"}
    \cup {FunctionStatement("f", b) : b \in Blocks0}
    \cup {GenericFor(<<"k">>, expressions, EmptyBlock) :
            expressions \in NonEmpty(SeqsUpTo({True, Identifier("x")}, MaxLen))}
    \cup {If(branches, else_block) :
            branches \in NonEmpty(SeqsUpTo({Branch(True, EmptyBlock),
                                            Branch(False, BreakBlock)}, MaxLen)),
            else_block \in {None, Some(EmptyBlock)}}
    \cup {LocalAssign(variables, values, tokens) :
            variables \in {<<"a">>, <<"a", "b">>},
            values \in SeqsUpTo({True, Number(1)}, MaxLen),
            tokens \in {None, Some(LocalAssignTokens)}}
    \cup {LocalAssign(<<"a">>, <<e>>, None) : e \in Expressions}
    \cup {LocalFunction("f", b) : b \in Blocks0}
    \cup {NumericFor("i", Number(1), end, step, EmptyBlock) :
            end \in {True, Identifier("x")}, step \in {None, Some(Number(1))}}
    \cup {Repeat(b, True) : b \in Blocks0}
    \cup {While(b, True) : b \in Blocks0}

Statements0 ==
    {Do(EmptyBlock), LocalFunction("f", EmptyBlock),
     FunctionCall(Prefix0, Tuple(<<String("s")>>)),
     LocalAssign(<<"a", "b">>, <<Number(1)>>, Some(LocalAssignTokens))}

LastStatements ==
    {Break} \cup {Return(expressions) :
                    expressions \in SeqsUpTo({True, Number(1)}, MaxLen)}

Blocks1 ==
    {Block(statements, last_statement) :
        statements \in SeqsUpTo(Statements0, MaxLen),
        last_statement \in {None} \cup {Some(l) : l \in LastStatements}}

Trees ==
    {Block(<<s>>, None) : s \in Statements}
    \cup Blocks1
    \cup {Block(<<Do(b)>>, Some(Break)) : b \in Blocks1}
    \cup {Block(<<LocalAssign(<<"a">>, <<Function(b)>>, None)>>, None) : b \in Blocks1}

-----------------------------------------------------------------------------
(* Specification: one call of visit_block(tree, processor) *)

Init ==
    /\ input \in Trees
    /\ tree = input
    /\ processor \in Processors
    /\ stack = <<Task("visit_block", <<>>)>>
    /\ log = <<>>
    /\ given = FunctionCall(Prefix0, Tuple(<<>>))
    /\ call = given
    /\ hooked = FALSE
    /\ rules = <<>>
    /\ operation = NoOperation
    /\ a_block = Block(<<>>, None)
    /\ local_assign = LocalAssign(<<"a">>, <<>>, None)

Next ==
    \/ visit_block
    \/ visit_block_last_statement
    \/ visit_statement
    \/ visit_expression
    \/ visit_function_expression
    \/ visit_assign_statement
    \/ visit_assign_statement_variable
    \/ visit_do_statement
    \/ visit_function_statement
    \/ visit_generic_for
    \/ visit_if_statement
    \/ visit_local_assign
    \/ visit_local_function
    \/ visit_numeric_for
    \/ visit_repeat_statement
    \/ visit_while_statement
    \/ visit_field_expression
    \/ visit_index_expression
    \/ visit_function_call
    \/ visit_arguments
    \/ visit_table
    \/ visit_prefix_expression
    \/ visit_lux_expression
    \/ visit_lux_element
    \/ visit_lux_children_child
    \/ visit_lux_fragment
    \/ visit_lux_child
    \/ visit_lux_attribute
    \/ visit_lux_attribute_value

Spec == Init /\ [][Next]_vars

-----------------------------------------------------------------------------
(* The node hierarchy: the typed children of a node *)

One(field, type) == << <<F(field), type>> >>
Many(field, list, type) == [i \in 1..Len(list) |-> <<At(field, i), type>>]

StatementChildren(node) ==
    CASE node.kind = "Assign" ->
            Many("variables", node.variables, "Variable")
            \o Many("values", node.values, "Expression")
      [] node.kind = "Call" -> One("prefix", "Prefix") \o One("arguments", "Arguments")
      [] node.kind = "Function" ->
            One("function_name", "FunctionName") \o One("block", "Block")
      [] node.kind = "GenericFor" ->
            Many("expressions", node.expressions, "Expression") \o One("block", "Block")
      [] node.kind = "If" ->
            Many("branches", node.branches, "Branch")
            \o Many("else_block", node.else_block, "Block")
      [] node.kind = "LocalAssign" -> Many("values", node.values, "Expression")
      [] node.kind = "NumericFor" ->
            One("start", "Expression") \o One("end", "Expression")
            \o Many("step", node.step, "Expression") \o One("block", "Block")
      [] node.kind \in {"Repeat", "While"} ->
            One("block", "Block") \o One("condition", "Expression")
      [] node.kind \in {"Do", "LocalFunction"} -> One("block", "Block")

\* Expression, Prefix, Variable and Arguments share their variants' records
ExpressionChildren(node) ==
    CASE node.kind = "Binary" -> One("left", "Expression") \o One("right", "Expression")
      [] node.kind \in {"Unary", "Parenthese"} -> One("expression", "Expression")
      [] node.kind = "Function" -> One("block", "Block")
      [] node.kind = "Call" -> One("prefix", "Prefix") \o One("arguments", "Arguments")
      [] node.kind = "Field" -> One("prefix", "Prefix")
      [] node.kind = "Index" -> One("prefix", "Prefix") \o One("index", "Expression")
      [] node.kind = "Table" -> Many("entries", node.entries, "TableEntry")
      [] node.kind = "Tuple" -> Many("expressions", node.expressions, "Expression")
      [] node.kind = "LUX" -> One("expression", "LUXExpression")
      [] OTHER -> <<>>

LUXChildren(type, node) ==
    CASE node.kind = "LUXElement" -> One("element", "LUXElement")
      [] node.kind = "LUXFragment" -> One("fragment", "LUXFragment")
      [] node.kind = "Element" ->
            Many("attributes", node.attributes, "LUXAttribute")
            \o Many("children", node.children, "LUXChild")
      [] node.kind = "SelfClosingElement" ->
            Many("attributes", node.attributes, "LUXAttribute")
      [] node.kind = "Fragment" -> Many("children", node.children, "LUXChild")
      [] node.kind \in {"ExpandedExpression", "Spread", "LuaExpression"} ->
            One("expression", "Expression")
      [] node.kind = "Expression" -> Many("expression", node.expression, "Expression")
      [] node.kind = "Named" -> Many("value", node.value, "LUXAttributeValue")
      [] OTHER -> <<>>

TypedChildren(type, node) ==
    CASE type = "Block" ->
            Many("statements", node.statements, "Statement")
            \o Many("last_statement", node.last_statement, "LastStatement")
      [] type = "LastStatement" ->
            IF node.kind = "Return"
            THEN Many("expressions", node.expressions, "Expression") ELSE <<>>
      [] type = "Statement" -> StatementChildren(node)
      [] type = "Branch" -> One("condition", "Expression") \o One("block", "Block")
      [] type \in {"Expression", "Prefix", "Variable", "Arguments"} ->
            ExpressionChildren(node)
      [] type = "TableEntry" ->
            IF node.kind = "Index"
            THEN One("key", "Expression") \o One("value", "Expression")
            ELSE One("value", "Expression")
      [] type = "FunctionName" -> <<>>
      [] OTHER -> LUXChildren(type, node)

RECURSIVE NodesAt(_, _, _)
NodesAt(node, path, type) ==
    LET children == TypedChildren(type, node) IN
    {<<path, type>>}
    \cup UNION {NodesAt(Child(node, children[i][1]), Sub(path, children[i][1]),
                        children[i][2]) : i \in DOMAIN children}

\* every node of a block, as <<path, type>>
Nodes(block) == NodesAt(block, <<>>, "Block")

LUXTypes ==
    {"LUXExpression", "LUXElement", "LUXFragment", "LUXChild", "LUXAttribute",
     "LUXAttributeValue"}
MarkupFree(block) == \A n \in Nodes(block) : n[2] \notin LUXTypes

-----------------------------------------------------------------------------
(* The log of hooks *)

IsPrefix(p, q) == Len(p) <= Len(q) /\ SubSeq(q, 1, Len(p)) = p

\* positions of the log where hook was delivered on the node at path
Calls(hook, path) == {i \in DOMAIN log : log[i] = <<hook, path>>}
\* positions where a hook was delivered on the node at path
On(path) == {i \in DOMAIN log : log[i][2] = path}
\* positions where a hook was delivered on the node at path or inside it
Within(path) == {i \in DOMAIN log : IsPrefix(path, log[i][2])}
Inside(path) == Within(path) \ On(path)
Hooks(hook) == {i \in DOMAIN log : log[i][1] = hook}
Before(I, J) == \A i \in I, j \in J : i < j

\* the nodes at the paths are visited one after the other, each with its
\* whole subtree, in the order of the list
InOrder(paths) ==
    /\ \A i \in DOMAIN paths : Within(paths[i]) # {}
    /\ \A i, j \in DOMAIN paths : i < j => Before(Within(paths[i]), Within(paths[j]))

Paths(path, field, list) == [i \in 1..Len(list) |-> Sub(path, At(field, i))]

CountOf(type, nodes) == Cardinality({n \in nodes : n[2] = type})

-----------------------------------------------------------------------------
(* Properties of the walk *)

\* C1: a walk with a processor whose hooks are the no-op defaults leaves the
\* tree equal to the tree it was handed, at every point of the walk.
C1_NoOpWalkKeepsTree == processor = "NodeProcessor" => tree = input

C1_Witness ==
    /\ Done
    /\ processor = "NodeProcessor"
    /\ tree = input
    /\ tree.statements # <<>>
    /\ tree.last_statement # None
    /\ \E i \in DOMAIN tree.statements :
         tree.statements[i].kind = "LocalAssign" /\ tree.statements[i].tokens # None
    /\ Calls("process_last_statement", <<At("last_statement", 1)>>) # {}

StatementHook(statement) ==
    CASE statement.kind = "Assign" -> "process_assign_statement"
      [] statement.kind = "Do" -> "process_do_statement"
      [] statement.kind = "Call" -> "process_function_call"
      [] statement.kind = "Function" -> "process_function_statement"
      [] statement.kind = "GenericFor" -> "process_generic_for_statement"
      [] statement.kind = "If" -> "process_if_statement"
      [] statement.kind = "LocalAssign" -> "process_local_assign_statement"
      [] statement.kind = "LocalFunction" -> "process_local_function_statement"
      [] statement.kind = "NumericFor" -> "process_numeric_for_statement"
      [] statement.kind = "Repeat" -> "process_repeat_statement"
      [] statement.kind = "While" -> "process_while_statement"

\* C2: after one walk of a markup-free tree, process_block was delivered
\* exactly once on every Block, the kind-specific statement hook exactly once
\* on every statement and process_expression exactly once on every
\* Expression, and on nothing else.
C2_EachNodeOnce ==
    (Done /\ processor = "NodeProcessor" /\ MarkupFree(tree)) =>
        LET nodes == Nodes(tree) IN
        /\ \A n \in nodes :
             /\ n[2] = "Block" => Cardinality(Calls("process_block", n[1])) = 1
             /\ n[2] = "Statement" =>
                  Cardinality(Calls(StatementHook(Get(tree, n[1])), n[1])) = 1
             /\ n[2] = "Expression" =>
                  Cardinality(Calls("process_expression", n[1])) = 1
        /\ Cardinality(Hooks("process_block")) = CountOf("Block", nodes)
        /\ Cardinality(Hooks("process_statement")) = CountOf("Statement", nodes)
        /\ Cardinality(Hooks("process_expression")) = CountOf("Expression", nodes)

C2_Witness ==
    /\ Done
    /\ processor = "NodeProcessor"
    /\ MarkupFree(tree)
    /\ \E n \in Nodes(tree) :
         /\ n[2] = "Statement"
         /\ Get(tree, n[1]).kind = "If"
         /\ Len(Get(tree, n[1]).branches) = 2
         /\ Get(tree, n[1]).else_block # None
    /\ Cardinality(Hooks("process_block")) = 4
    /\ Cardinality(Hooks("process_expression")) = 2

\* C3: for every block, process_block comes before every hook on the block's
\* content; the statements are visited in list order, each with its whole
\* subtree before the next; process_last_statement comes after every
\* statement's subtree and before the Return expressions, which are visited
\* left to right; a Break gets no further hook.
C3_BlockPreOrder ==
    Done =>
        \A n \in Nodes(tree) : n[2] = "Block" =>
            LET b == n[1]
                block == Get(tree, b)
                statements == Paths(b, "statements", block.statements)
                last == Sub(b, At("last_statement", 1))
            IN  /\ Cardinality(Calls("process_block", b)) = 1
                /\ Before(Calls("process_block", b), Within(b) \ Calls("process_block", b))
                /\ InOrder(statements)
                /\ block.last_statement # None =>
                     /\ Cardinality(Calls("process_last_statement", last)) = 1
                     /\ \A i \in DOMAIN statements : Before(Within(statements[i]), Within(last))
                     /\ Before(Calls("process_last_statement", last), Inside(last))
                     /\ IF block.last_statement[1].kind = "Return"
                        THEN InOrder(Paths(last, "expressions",
                                           block.last_statement[1].expressions))
                        ELSE Within(last) = Calls("process_last_statement", last)

C3_Witness ==
    /\ Done
    /\ Len(tree.statements) = 2
    /\ tree.last_statement # None
    /\ tree.last_statement[1].kind = "Return"
    /\ Len(tree.last_statement[1].expressions) = 2
    /\ Inside(<<At("statements", 1)>>) # {}
    /\ Inside(<<At("statements", 2)>>) # {}

IfPaths(s, statement) ==
    [k \in 1..(2 * Len(statement.branches)) |->
        IF k % 2 = 1
        THEN Sub(Sub(s, At("branches", (k + 1) \div 2)), F("condition"))
        ELSE Sub(Sub(s, At("branches", k \div 2)), F("block"))]
    \o Paths(s, "else_block", statement.else_block)

\* C4: for every statement, process_statement is the first hook, the
\* kind-specific hook the second, and the hooks on its children follow:
\* Assign visits its variables, as l-values, before any value; If visits the
\* condition and then the body of each branch in order, the else block last;
\* NumericFor visits start, end, the step when present, then the body.
C4_StatementOrder ==
    Done =>
        \A n \in Nodes(tree) : n[2] = "Statement" =>
            LET s == n[1]
                statement == Get(tree, s)
                first == CHOOSE i \in Within(s) : \A j \in Within(s) : i <= j
            IN  /\ Within(s) # {}
                /\ log[first] = <<"process_statement", s>>
                /\ first + 1 \in DOMAIN log
                /\ log[first + 1] = <<StatementHook(statement), s>>
                /\ On(s) = {first, first + 1}
                /\ statement.kind = "Assign" =>
                     /\ InOrder(Paths(s, "variables", statement.variables)
                                \o Paths(s, "values", statement.values))
                     /\ \A i \in DOMAIN statement.variables :
                          Calls("process_expression", Sub(s, At("variables", i))) = {}
                /\ statement.kind = "If" => InOrder(IfPaths(s, statement))
                /\ statement.kind = "NumericFor" =>
                     InOrder(<<Sub(s, F("start")), Sub(s, F("end"))>>
                             \o Paths(s, "step", statement.step)
                             \o <<Sub(s, F("block"))>>)

C4_Witness ==
    /\ Done
    /\ \E i \in DOMAIN tree.statements :
         /\ tree.statements[i].kind = "NumericFor"
         /\ tree.statements[i].step # None
         /\ Inside(<<At("statements", i)>>) # {}

First(I) == CHOOSE i \in I : \A j \in I : i <= j

CompositeKinds ==
    {"Binary", "Unary", "Parenthese", "Function", "Call", "Field", "Index", "Table"}

CompositeHook(expression) ==
    CASE expression.kind = "Binary" -> "process_binary_expression"
      [] expression.kind = "Unary" -> "process_unary_expression"
      [] expression.kind = "Parenthese" -> "process_parenthese_expression"
      [] expression.kind = "Function" -> "process_function_expression"
      [] expression.kind = "Call" -> "process_function_call"
      [] expression.kind = "Field" -> "process_field_expression"
      [] expression.kind = "Index" -> "process_index_expression"
      [] expression.kind = "Table" -> "process_table_expression"

\* C5: for every composite expression, process_expression is the first
\* hook, the hook of its kind (process_parenthese_expression for a
\* Parenthese) the second and delivered exactly once, and the hooks of its
\* sub-expressions come after both.
C5_CompositeHookBeforeChildren ==
    (Done /\ processor = "NodeProcessor") =>
        \A n \in Nodes(tree) :
            (n[2] = "Expression" /\ Get(tree, n[1]).kind \in CompositeKinds) =>
                LET p == n[1]
                    hook == CompositeHook(Get(tree, p))
                    first == First(Within(p))
                IN  /\ Within(p) # {}
                    /\ log[first] = <<"process_expression", p>>
                    /\ Calls(hook, p) = {first + 1}
                    /\ Before({first, first + 1}, Inside(p))

LeafKinds ==
    {"Nil", "True", "False", "VariableArguments", "Number", "String", "Identifier"}
HookedLeafKinds == {"Number", "String", "Identifier"}

LeafHook(expression) ==
    CASE expression.kind = "Number" -> "process_number_expression"
      [] expression.kind = "String" -> "process_string_expression"
      [] expression.kind = "Identifier" -> "process_variable_expression"

LUXHooks(type, node) ==
    CASE type = "LUXExpression" -> {"process_lux_expression"}
      [] type = "LUXElement" ->
            {"process_lux_element",
             IF node.kind = "Element" THEN "process_lux_open_close_element"
             ELSE "process_lux_self_closing_element"}
      [] type = "LUXFragment" -> {"process_lux_fragment"}
      [] type = "LUXChild" -> {"process_lux_child"}
      [] type = "LUXAttribute" -> {"process_lux_attribute"}
      [] type = "LUXAttributeValue" -> {"process_lux_attribute_value"}

\* C7: every markup node gets each hook of its kind exactly once, so
\* process_lux_child is delivered once per child of an element or fragment,
\* and the attributes of an element are visited, in order, before its
\* children.
C7_MarkupHookOnce ==
    (Done /\ processor = "NodeProcessor") =>
        \A n \in Nodes(tree) : n[2] \in LUXTypes =>
            LET p == n[1]
                node == Get(tree, p)
            IN  /\ \A hook \in LUXHooks(n[2], node) : Cardinality(Calls(hook, p)) = 1
                /\ (n[2] = "LUXElement" /\ node.kind = "Element") =>
                     InOrder(Paths(p, "attributes", node.attributes)
                             \o Paths(p, "children", node.children))

\* the node is one the hook takes: the hook's parameter type
HookFits(hook, type, node) ==
    CASE hook = "process_block" -> type = "Block"
      [] hook = "process_statement" -> type = "Statement"
      [] hook = "process_last_statement" -> type = "LastStatement"
      [] hook = "process_expression" -> type = "Expression"
      [] hook = "process_prefix_expression" -> type = "Prefix"
      [] hook = "process_function_call" ->
            type \in {"Statement", "Expression", "Prefix"} /\ node.kind = "Call"
      [] hook = "process_function_expression" ->
            type = "Expression" /\ node.kind = "Function"
      [] hook = "process_variable_expression" ->
            \/ type \in {"Expression", "Prefix", "Variable"} /\ node.kind = "Identifier"
            \/ type = "FunctionName"
      [] hook = "process_field_expression" ->
            type \in {"Expression", "Prefix", "Variable"} /\ node.kind = "Field"
      [] hook = "process_index_expression" ->
            type \in {"Expression", "Prefix", "Variable"} /\ node.kind = "Index"
      [] hook = "process_string_expression" ->
            type \in {"Expression", "Arguments"} /\ node.kind = "String"
      [] hook = "process_table_expression" ->
            type \in {"Expression", "Arguments"} /\ node.kind = "Table"
      [] hook = "process_binary_expression" ->
            type = "Expression" /\ node.kind = "Binary"
      [] hook = "process_unary_expression" -> type = "Expression" /\ node.kind = "Unary"
      [] hook = "process_number_expression" ->
            type = "Expression" /\ node.kind = "Number"
      [] type \in LUXTypes -> hook \in LUXHooks(type, node)
      [] OTHER -> type = "Statement" /\ hook = StatementHook(node)

\* the hooks visit_block owes a node of the tree
HooksDue(type, node) ==
    CASE type = "Block" -> {"process_block"}
      [] type = "Statement" -> {"process_statement", StatementHook(node)}
      [] type = "LastStatement" -> {"process_last_statement"}
      [] type = "Expression" ->
            {"process_expression"}
            \cup (IF node.kind \in CompositeKinds \ {"Parenthese"}
                  THEN {CompositeHook(node)} ELSE {})
            \cup (IF node.kind \in HookedLeafKinds THEN {LeafHook(node)} ELSE {})
      [] type = "Prefix" ->
            {"process_prefix_expression"}
            \cup (IF node.kind \in {"Call", "Field", "Index"}
                  THEN {CompositeHook(node)} ELSE {})
            \cup (IF node.kind = "Identifier" THEN {LeafHook(node)} ELSE {})
      [] type = "Variable" ->
            IF node.kind = "Identifier" THEN {LeafHook(node)} ELSE {CompositeHook(node)}
      [] type = "Arguments" ->
            CASE node.kind = "String" -> {"process_string_expression"}
              [] node.kind = "Table" -> {"process_table_expression"}
              [] OTHER -> {}
      [] type = "FunctionName" -> {"process_variable_expression"}
      [] OTHER -> {}

\* C8: when the hooks of a mutating processor replace the node they are
\* handed or its children, the walk is a walk of the tree the hooks left:
\* every hook was delivered on a node of that tree of the type and variant
\* the hook takes, none on a node that was replaced, and every block,
\* statement, expression, prefix, call and argument of that tree got each
\* of its hooks exactly once.
C8_WalkFollowsMutation ==
    (Done /\ processor \in MutatingProcessors) =>
        LET nodes == Nodes(tree) IN
        /\ \A i \in DOMAIN log :
             \E n \in nodes :
                 n[1] = log[i][2] /\ HookFits(log[i][1], n[2], Get(tree, n[1]))
        /\ \A n \in nodes :
             \A hook \in HooksDue(n[2], Get(tree, n[1])) :
                 Cardinality(Calls(hook, n[1])) = 1

\* a hook was delivered on a node the hooks put into the tree
VisitedNew(path) ==
    /\ Get(tree, path) = Identifier("new")
    /\ Calls("process_variable_expression", path) # {}

C8_Witness ==
    /\ Done
    /\ processor = "NodeProcessorMut"
    /\ \E n \in Nodes(tree) :
         /\ n[2] = "Statement"
         /\ Get(tree, n[1]) = NewStatement
         /\ Get(input, n[1]).kind = "LocalFunction"
         /\ VisitedNew(n[1] \o <<F("block"), At("last_statement", 1), At("expressions", 1)>>)
    /\ \E n \in Nodes(tree) :
         /\ n[2] = "Expression"
         /\ Get(tree, n[1]) = NewExpression
         /\ VisitedNew(Sub(n[1], F("expression")))

-----------------------------------------------------------------------------
(* The rules: rules/call_parens.rs and rules/mod.rs *)

REMOVE_FUNCTION_CALL_PARENS == "remove_function_call_parens"

\* the names of the rules whose files define them
COMPUTE_EXPRESSIONS_RULE_NAME == "compute_expression"
CONVERT_INDEX_TO_FIELD_RULE_NAME == "convert_index_to_field"
CONVERT_LOCAL_FUNCTION_TO_ASSIGN_RULE_NAME == "convert_local_function_to_assign"
GROUP_LOCAL_ASSIGNMENT == "group_local_assignment"
REMOVE_COMMENTS_RULE_NAME == "remove_comments"
REMOVE_EMPTY_DO_RULE_NAME == "remove_empty_do"
REMOVE_METHOD_DEFINITION_RULE_NAME == "remove_method_definition"
REMOVE_SPACES_RULE_NAME == "remove_spaces"
REMOVE_UNUSED_IF_BRANCH_RULE_NAME == "remove_unused_if_branch"
REMOVE_UNUSED_WHILE_RULE_NAME == "remove_unused_while"
RENAME_VARIABLES_RULE_NAME == "rename_variables"
INJECT_GLOBAL_VALUE_RULE_NAME == "inject_global_value"

\* Rule::get_name of the rules other than RemoveFunctionCallParens
RuleName(rule) ==
    CASE rule = "ComputeExpression" -> COMPUTE_EXPRESSIONS_RULE_NAME
      [] rule = "ConvertIndexToField" -> CONVERT_INDEX_TO_FIELD_RULE_NAME
      [] rule = "ConvertLocalFunctionToAssign" ->
            CONVERT_LOCAL_FUNCTION_TO_ASSIGN_RULE_NAME
      [] rule = "GroupLocalAssignment" -> GROUP_LOCAL_ASSIGNMENT
      [] rule = "RemoveComments" -> REMOVE_COMMENTS_RULE_NAME
      [] rule = "RemoveEmptyDo" -> REMOVE_EMPTY_DO_RULE_NAME
      [] rule = "RemoveMethodDefinition" -> REMOVE_METHOD_DEFINITION_RULE_NAME
      [] rule = "RemoveSpaces" -> REMOVE_SPACES_RULE_NAME
      [] rule = "RemoveUnusedIfBranch" -> REMOVE_UNUSED_IF_BRANCH_RULE_NAME
      [] rule = "RemoveUnusedWhile" -> REMOVE_UNUSED_WHILE_RULE_NAME
      [] rule = "RenameVariables" -> RENAME_VARIABLES_RULE_NAME
      [] rule = "InjectGlobalValue" -> INJECT_GLOBAL_VALUE_RULE_NAME

get_name(rule) ==
    IF rule = "RemoveFunctionCallParens"
    THEN REMOVE_FUNCTION_CALL_PARENS ELSE RuleName(rule)

\* get_default_rules with two lines of the vec! exchanged
get_default_rules_swapped ==
    <<"RemoveSpaces", "RemoveComments", "ComputeExpression", "RemoveUnusedWhile",
      "RemoveUnusedIfBranch", "RemoveEmptyDo", "RemoveMethodDefinition",
      "ConvertIndexToField", "ConvertLocalFunctionToAssign", "GroupLocalAssignment",
      "RenameVariables", "RemoveFunctionCallParens">>

\* each rule is the Default of its type
get_default_rules ==
    <<"RemoveSpaces", "RemoveComments", "ComputeExpression", "RemoveUnusedIfBranch",
      "RemoveUnusedWhile", "RemoveEmptyDo", "RemoveMethodDefinition",
      "ConvertIndexToField", "ConvertLocalFunctionToAssign", "GroupLocalAssignment",
      "RenameVariables", "RemoveFunctionCallParens">>

\* the calls handed to the hook
ArgumentExpressions ==
    {String("s"), String(""), Table(<<>>), Table(<<EntryValue(String("s"))>>), True,
     Parenthese(String("s")), Identifier("x")}
GivenArguments ==
    {Tuple(expressions) : expressions \in SeqsUpTo(ArgumentExpressions, MaxLen)}
    \cup {String("s"), String(""), Table(<<>>), Table(<<EntryValue(True)>>)}
GivenPrefixes ==
    {Prefix0, Field(Prefix0, "k"), FunctionCall(Prefix0, Tuple(<<String("s")>>))}
GivenCalls ==
    {FunctionCall(prefix, arguments) :
        prefix \in GivenPrefixes, arguments \in GivenArguments}

InitRules ==
    /\ input = EmptyBlock
    /\ tree = input
    /\ processor = "RemoveFunctionCallParens"
    /\ stack = <<>>
    /\ log = <<>>
    /\ given \in GivenCalls
    /\ call = given
    /\ hooked = FALSE
    /\ rules = <<>>
    /\ operation = NoOperation
    /\ a_block = Block(<<>>, None)
    /\ local_assign = LocalAssign(<<"a">>, <<>>, None)

\* the hook of the rule's processor runs on call
Processor_process_function_call ==
    /\ ~hooked
    /\ call' = process_function_call(call)
    /\ hooked' = TRUE
    /\ UNCHANGED <<input, tree, processor, stack, log, given, rules, operation, a_block,
                   local_assign>>

call_get_default_rules ==
    /\ rules = <<>>
    /\ rules' = get_default_rules
    /\ UNCHANGED <<input, tree, processor, stack, log, given, call, hooked, operation,
                   a_block, local_assign>>

NextRules ==
    \/ Processor_process_function_call
    \/ call_get_default_rules

SpecRules == InitRules /\ [][NextRules]_vars

\* C9: the hook replaces the arguments by Arguments::String (Arguments::Table)
\* holding the same string (table) exactly when they are a Tuple of exactly
\* one expression that is a String (Table); in every other case the call is
\* as it was; the prefix is never changed.
C9_CallParensHook ==
    hooked =>
        LET arguments == given.arguments
            single == arguments.kind = "Tuple" /\ Len(arguments.expressions) = 1
        IN  /\ call.prefix = given.prefix
            /\ (single /\ arguments.expressions[1].kind = "String") =>
                 /\ call.arguments.kind = "String"
                 /\ call.arguments.value = arguments.expressions[1].value
                 /\ DOMAIN call.arguments = {"kind", "value"}
            /\ (single /\ arguments.expressions[1].kind = "Table") =>
                 /\ call.arguments.kind = "Table"
                 /\ call.arguments.entries = arguments.expressions[1].entries
                 /\ DOMAIN call.arguments = {"kind", "entries"}
            /\ ~(single /\ arguments.expressions[1].kind \in {"String", "Table"}) =>
                 call = given

C9_Witness ==
    /\ hooked
    /\ given.arguments = Tuple(<<String("s")>>)
    /\ call.arguments = String("s")
    /\ call # given

DefaultStack ==
    <<"remove_spaces", "remove_comments", "compute_expression",
      "remove_unused_if_branch", "remove_unused_while", "remove_empty_do",
      "remove_method_definition", "convert_index_to_field",
      "convert_local_function_to_assign", "group_local_assignment",
      "rename_variables", "remove_function_call_parens">>

\* C10: get_default_rules returns twelve rules whose names are, in this
\* order and without repetition, the default stack.
C10_DefaultRules ==
    rules # <<>> =>
        /\ Len(rules) = 12
        /\ [i \in DOMAIN rules |-> get_name(rules[i])] = DefaultStack
        /\ \A i, j \in DOMAIN rules : i # j => get_name(rules[i]) # get_name(rules[j])

C10_Witness == rules # <<>> /\ get_name(rules[Len(rules)]) = REMOVE_FUNCTION_CALL_PARENS

-----------------------------------------------------------------------------
(* The registry: rules/mod.rs.  A rule is a record of its type and of the   *)
(* properties it was configured with; RuleProperties (a HashMap) is a       *)
(* function from its keys to their values.                                  *)

RuleProperties_new == [key \in {} |-> None]
Rule(type, properties) == [type |-> type, properties |-> properties]
Default(type) == Rule(type, RuleProperties_new)

\* RulePropertyValue, and the untagged form each value is written as
Usize(text) == [kind |-> "Usize", text |-> text]
Float(text) == [kind |-> "Float", text |-> text]
RulePropertyValue_None == [kind |-> "None", text |-> "null"]
JsonString(text) == [json |-> "string", text |-> text]
JsonNumber(text) == [json |-> "number", text |-> text]
JsonFloat(text) == [json |-> "float", text |-> text]
JsonNull == [json |-> "null", text |-> "null"]

RulePropertyValue_serialize(value) ==
    CASE value.kind = "Usize" -> JsonNumber(value.text)
      [] value.kind = "Float" -> JsonFloat(value.text)
      [] value.kind = "None" -> JsonNull

\* the untagged enum with Float declared before Usize
RulePropertyValue_deserialize_float_first(json) ==
    CASE json.json = "string" -> [kind |-> "String", text |-> json.text]
      [] json.json \in {"number", "float"} -> Float(json.text)
      [] json.json = "null" -> RulePropertyValue_None

\* #[serde(untagged)]: the first variant, in declaration order, that the
\* value fits
RulePropertyValue_deserialize(json) ==
    CASE json.json = "string" -> [kind |-> "String", text |-> json.text]
      [] json.json = "number" -> Usize(json.text)
      [] json.json = "float" -> Float(json.text)
      [] json.json = "null" -> RulePropertyValue_None

\* the property names of the rules whose files define them, and a name that
\* no rule has
PropertyKeys == {"a", "ab", "b"}
UnknownKey == "z"
PropertyValues == {Usize("1"), Float("1.5"), RulePropertyValue_None}

\* the bytes of a String, which str::cmp compares
Bytes(string) ==
    CASE string = "a" -> <<97>>
      [] string = "ab" -> <<97, 98>>
      [] string = "b" -> <<98>>
      [] string = "z" -> <<122>>
      [] string = "rule" -> <<114, 117, 108, 101>>

RECURSIVE cmp_bytes(_, _)
cmp_bytes(a, b) ==
    CASE a = <<>> /\ b = <<>> -> "Equal"
      [] a = <<>> /\ b # <<>> -> "Less"
      [] a # <<>> /\ b = <<>> -> "Greater"
      [] OTHER ->
            IF Head(a) < Head(b) THEN "Less"
            ELSE IF Head(a) > Head(b) THEN "Greater"
            ELSE cmp_bytes(Tail(a), Tail(b))

cmp(a, b) == cmp_bytes(Bytes(a), Bytes(b))

\* Vec::sort_by(|a, b| a.0.cmp(&b.0)): a stable sort of the entries by key
RECURSIVE insert_sorted(_, _)
insert_sorted(sorted, entry) ==
    IF sorted = <<>> THEN <<entry>>
    ELSE IF cmp(entry[1], Head(sorted)[1]) = "Less" THEN <<entry>> \o sorted
    ELSE <<Head(sorted)>> \o insert_sorted(Tail(sorted), entry)

RECURSIVE sort_from(_, _)
sort_from(sorted, rest) ==
    IF rest = <<>> THEN sorted
    ELSE sort_from(insert_sorted(sorted, Head(rest)), Tail(rest))

\* the entries as HashMap::into_iter happened to yield them
sort_by_unsorted(ordered) == ordered

sort_by(ordered) == sort_from(<<>>, ordered)

\* serialize_to_properties of a rule whose file defines it: the properties
\* that differ from their default
RuleConfiguration_serialize_to_properties(rule) == rule.properties

serialize_to_properties(rule) ==
    IF rule.type = "RemoveFunctionCallParens"
    THEN RuleProperties_new ELSE RuleConfiguration_serialize_to_properties(rule)

has_properties(rule) == serialize_to_properties(rule) # RuleProperties_new

\* the orders in which a HashMap may yield its entries
IntoIter(properties) ==
    {ordered \in [1..Cardinality(DOMAIN properties) -> DOMAIN properties] :
        \A i, j \in DOMAIN ordered : i # j => ordered[i] # ordered[j]}

\* impl Serialize for Box<dyn Rule>; into_iter is the order the HashMap
\* yields the keys in
Serialize(rule, into_iter) ==
    LET properties == serialize_to_properties(rule)
        property_count == Cardinality(DOMAIN properties)
        rule_name == get_name(rule.type)
    IN  IF property_count = 0
        THEN [kind |-> "Str", value |-> rule_name]
        ELSE LET collected ==
                     [i \in DOMAIN into_iter |-> <<into_iter[i], properties[into_iter[i]]>>]
                 ordered == sort_by(collected)
             IN  [kind |-> "Map", len |-> property_count + 1,
                  entries |->
                    <<<<"rule", JsonString(rule_name)>>>> \o
                    [i \in DOMAIN ordered |->
                        <<ordered[i][1], RulePropertyValue_serialize(ordered[i][2])>>]]

\* Result, and the errors of the registry.  custom carries the Display of the
\* error it wraps: the format string and its argument
Ok(value) == [kind |-> "Ok", value |-> value]
Err(error) == [kind |-> "Err", error |-> error]

UnexpectedProperty(key) == [error |-> "UnexpectedProperty", field |-> key]
Display(error) ==
    CASE error.error = "UnexpectedProperty" ->
            [message |-> "unexpected field '{}'", field |-> error.field]
      [] error.error = "invalid rule name" ->
            [message |-> "invalid rule name: {}", field |-> error.field]
custom(error) ==
    [error |-> "custom", message |-> Display(error).message,
     field |-> Display(error).field]
custom_duplicate(property) ==
    [error |-> "custom", message |-> "duplicate field {} in rule object",
     field |-> property]
duplicate_field(field) == [error |-> "duplicate_field", message |-> "", field |-> field]
missing_field(field) == [error |-> "missing_field", message |-> "", field |-> field]
invalid_type(field) == [error |-> "invalid_type", message |-> "", field |-> field]

\* the rule types FromStr constructs
RuleTypes ==
    {"ComputeExpression", "ConvertIndexToField", "ConvertLocalFunctionToAssign",
     "GroupLocalAssignment", "InjectGlobalValue", "RemoveComments", "RemoveEmptyDo",
     "RemoveFunctionCallParens", "RemoveMethodDefinition", "RemoveSpaces",
     "RemoveUnusedIfBranch", "RemoveUnusedWhile", "RenameVariables"}

\* from_str whose match has lost the arm of remove_function_call_parens
from_str_without_call_parens(string) ==
    IF \E type \in RuleTypes \ {"RemoveFunctionCallParens"} : get_name(type) = string
    THEN Ok(Default(CHOOSE type \in RuleTypes : get_name(type) = string))
    ELSE Err([error |-> "invalid rule name", field |-> string])

\* impl FromStr for Box<dyn Rule>
from_str(string) ==
    CASE string = COMPUTE_EXPRESSIONS_RULE_NAME -> Ok(Default("ComputeExpression"))
      [] string = CONVERT_INDEX_TO_FIELD_RULE_NAME -> Ok(Default("ConvertIndexToField"))
      [] string = CONVERT_LOCAL_FUNCTION_TO_ASSIGN_RULE_NAME ->
            Ok(Default("ConvertLocalFunctionToAssign"))
      [] string = GROUP_LOCAL_ASSIGNMENT -> Ok(Default("GroupLocalAssignment"))
      [] string = INJECT_GLOBAL_VALUE_RULE_NAME -> Ok(Default("InjectGlobalValue"))
      [] string = REMOVE_COMMENTS_RULE_NAME -> Ok(Default("RemoveComments"))
      [] string = REMOVE_EMPTY_DO_RULE_NAME -> Ok(Default("RemoveEmptyDo"))
      [] string = REMOVE_FUNCTION_CALL_PARENS -> Ok(Default("RemoveFunctionCallParens"))
      [] string = REMOVE_METHOD_DEFINITION_RULE_NAME ->
            Ok(Default("RemoveMethodDefinition"))
      [] string = REMOVE_SPACES_RULE_NAME -> Ok(Default("RemoveSpaces"))
      [] string = REMOVE_UNUSED_IF_BRANCH_RULE_NAME -> Ok(Default("RemoveUnusedIfBranch"))
      [] string = REMOVE_UNUSED_WHILE_RULE_NAME -> Ok(Default("RemoveUnusedWhile"))
      [] string = RENAME_VARIABLES_RULE_NAME -> Ok(Default("RenameVariables"))
      [] OTHER -> Err([error |-> "invalid rule name", field |-> string])

\* verify_no_rule_properties: properties.iter().next() is whichever key the
\* HashMap yields first
verify_no_rule_properties(properties) ==
    IF DOMAIN properties # {}
    THEN {Err(UnexpectedProperty(key)) : key \in DOMAIN properties}
    ELSE {Ok(<<>>)}

\* RemoveFunctionCallParens::configure that accepts every map
RemoveFunctionCallParens_configure_ok(properties) == {Ok(<<>>)}

\* RemoveFunctionCallParens::configure: the loop returns at the first key
\* the HashMap yields
RemoveFunctionCallParens_configure(properties) ==
    IF DOMAIN properties # {}
    THEN {Err(UnexpectedProperty(key)) : key \in DOMAIN properties}
    ELSE {Ok(<<>>)}

\* configure of a rule whose file defines it: an unknown key is an
\* UnexpectedProperty, the known ones are kept
RuleConfiguration_configure(rule, properties) ==
    IF DOMAIN properties \subseteq PropertyKeys
    THEN {[result |-> Ok(<<>>), rule |-> [rule EXCEPT !.properties = properties]]}
    ELSE {[result |-> Err(UnexpectedProperty(key)), rule |-> rule] :
            key \in DOMAIN properties \ PropertyKeys}

\* rule.configure(properties): the results it may return, each with the rule
\* as it is afterwards
configure(rule, properties) ==
    IF rule.type = "RemoveFunctionCallParens"
    THEN {[result |-> result, rule |-> rule] :
            result \in RemoveFunctionCallParens_configure(properties)}
    ELSE RuleConfiguration_configure(rule, properties)

\* from_str(..).map_err(custom)?, rule.configure(..).map_err(custom)?, Ok(rule)
Construct(name, properties) ==
    LET resolved == from_str(name) IN
    IF resolved.kind = "Err" THEN {Err(custom(resolved.error))}
    ELSE {IF configured.result.kind = "Err"
          THEN Err(custom(configured.result.error))
          ELSE Ok(configured.rule) :
            configured \in configure(resolved.value, properties)}

\* StringOrStruct::visit_str
visit_str(value) == Construct(value, RuleProperties_new)

\* HashMap::insert
insert(properties, key, value) ==
    [k \in DOMAIN properties \cup {key} |-> IF k = key THEN value ELSE properties[k]]

\* visit_map_loop that keeps the first "rule" and skips a repeated one
RECURSIVE visit_map_loop_lenient(_, _, _)
visit_map_loop_lenient(map, rule_name, properties) ==
    IF map = <<>> THEN Ok([rule_name |-> rule_name, properties |-> properties])
    ELSE LET key == Head(map)[1]
             json == Head(map)[2]
         IN  IF key = "rule"
             THEN IF rule_name = None
                  THEN IF json.json = "string"
                       THEN visit_map_loop_lenient(Tail(map), Some(json.text), properties)
                       ELSE Err(invalid_type("rule"))
                  ELSE visit_map_loop_lenient(Tail(map), rule_name, properties)
             ELSE IF key \in DOMAIN properties
                  THEN Err(custom_duplicate(key))
                  ELSE visit_map_loop_lenient(Tail(map), rule_name,
                           insert(properties, key, RulePropertyValue_deserialize(json)))

\* the while let loop of visit_map over the entries left in the map: the
\* error it returns, or the rule_name and the properties it ends with
RECURSIVE visit_map_loop(_, _, _)
visit_map_loop(map, rule_name, properties) ==
    IF map = <<>> THEN Ok([rule_name |-> rule_name, properties |-> properties])
    ELSE LET key == Head(map)[1]
             json == Head(map)[2]
         IN  IF key = "rule"
             THEN IF rule_name = None
                  THEN IF json.json = "string"
                       THEN visit_map_loop(Tail(map), Some(json.text), properties)
                       ELSE Err(invalid_type("rule"))
                  ELSE Err(duplicate_field("rule"))
             ELSE IF key \in DOMAIN properties
                  THEN Err(custom_duplicate(key))
                  ELSE visit_map_loop(Tail(map), rule_name,
                           insert(properties, key, RulePropertyValue_deserialize(json)))

\* StringOrStruct::visit_map
visit_map(map) ==
    LET collected == visit_map_loop(map, None, RuleProperties_new) IN
    IF collected.kind = "Err" THEN {collected}
    ELSE IF collected.value.rule_name # None
         THEN Construct(collected.value.rule_name[1], collected.value.properties)
         ELSE {Err(missing_field("rule"))}

\* impl Deserialize for Box<dyn Rule>: deserialize_any hands a string to
\* visit_str and a map to visit_map
Deserialize(document) ==
    CASE document.kind = "Str" -> visit_str(document.value)
      [] document.kind = "Map" -> visit_map(document.entries)
      [] OTHER -> {Err(invalid_type("rule name or rule object"))}

\* The calls made to the registry
Pending == [kind |-> "Pending"]

PropertyMaps(keys) == UNION {[K -> PropertyValues] : K \in SUBSET keys}

ConfiguredRules ==
    {Default("RemoveFunctionCallParens")}
    \cup {Rule(type, properties) :
            type \in {"RenameVariables", "InjectGlobalValue"},
            properties \in PropertyMaps(PropertyKeys)}

GivenNames == {get_name(type) : type \in RuleTypes} \cup {"unknown_rule", ""}

Entries ==
    {<<"rule", JsonString(name)>> :
        name \in {REMOVE_FUNCTION_CALL_PARENS, RENAME_VARIABLES_RULE_NAME, "unknown_rule"}}
    \cup {<<"rule", JsonNumber("1")>>}
    \cup {<<key, json>> : key \in {"a", "ab", UnknownKey},
                          json \in {JsonNumber("1"), JsonNull}}

Documents ==
    {[kind |-> "Str", value |-> name] : name \in GivenNames}
    \cup {[kind |-> "Map", len |-> Len(entries), entries |-> entries] :
            entries \in SeqsUpTo(Entries, MaxLen + 1)}
    \cup {[kind |-> "Number", value |-> "1"]}

RegistryCalls ==
    {[fn |-> "serialize", rule |-> rule, result |-> Pending] : rule \in ConfiguredRules}
    \cup {[fn |-> "deserialize", document |-> document, result |-> Pending] :
            document \in Documents}
    \cup {[fn |-> "from_str", string |-> string, result |-> Pending] :
            string \in GivenNames}
    \cup {[fn |-> "configure", rule |-> Default(type), properties |-> properties,
           result |-> Pending] :
            type \in {"RemoveFunctionCallParens", "RenameVariables"},
            properties \in PropertyMaps(PropertyKeys \cup {UnknownKey})}
    \cup {[fn |-> "verify_no_rule_properties", properties |-> properties,
           result |-> Pending] :
            properties \in PropertyMaps(PropertyKeys \cup {UnknownKey})}

InitRegistry ==
    /\ input = EmptyBlock
    /\ tree = input
    /\ processor = "RemoveFunctionCallParens"
    /\ stack = <<>>
    /\ log = <<>>
    /\ given = FunctionCall(Prefix0, Tuple(<<>>))
    /\ call = given
    /\ hooked = FALSE
    /\ rules = <<>>
    /\ operation \in RegistryCalls
    /\ a_block = Block(<<>>, None)
    /\ local_assign = LocalAssign(<<"a">>, <<>>, None)

Called(fn) == operation.fn = fn /\ operation.result = Pending
Returned(fn) == operation.fn = fn /\ operation.result # Pending

Returns(result) ==
    /\ operation' = [operation EXCEPT !.result = result]
    /\ UNCHANGED <<input, tree, processor, stack, log, given, call, hooked, rules,
                   a_block, local_assign>>

call_serialize ==
    /\ Called("serialize")
    /\ \E into_iter \in IntoIter(serialize_to_properties(operation.rule)) :
         Returns(Serialize(operation.rule, into_iter))

call_deserialize ==
    /\ Called("deserialize")
    /\ \E result \in Deserialize(operation.document) : Returns(result)

\* the serialized rule is deserialized
call_deserialize_serialized ==
    /\ Returned("serialize")
    /\ \E result \in Deserialize(operation.result) :
         /\ operation' = [fn |-> "round_trip", rule |-> operation.rule,
                          document |-> operation.result, result |-> result]
         /\ UNCHANGED <<input, tree, processor, stack, log, given, call, hooked, rules,
                        a_block, local_assign>>

call_from_str ==
    /\ Called("from_str")
    /\ Returns(from_str(operation.string))

call_configure ==
    /\ Called("configure")
    /\ \E configured \in configure(operation.rule, operation.properties) :
         /\ operation' = [operation EXCEPT !.result = configured.result,
                                           !.rule = configured.rule]
         /\ UNCHANGED <<input, tree, processor, stack, log, given, call, hooked, rules,
                        a_block, local_assign>>

call_verify_no_rule_properties ==
    /\ Called("verify_no_rule_properties")
    /\ \E result \in verify_no_rule_properties(operation.properties) : Returns(result)

NextRegistry ==
    \/ call_serialize
    \/ call_deserialize
    \/ call_deserialize_serialized
    \/ call_from_str
    \/ call_configure
    \/ call_verify_no_rule_properties

SpecRegistry == InitRegistry /\ [][NextRegistry]_vars

\* the property keys in ascending lexicographic order
Ascending == <<"a", "ab", "b">>
Rank(key) == CHOOSE i \in DOMAIN Ascending : Ascending[i] = key

\* C11: serializing a rule yields the bare name string exactly when
\* serialize_to_properties is empty (has_properties is false); otherwise it
\* yields a map of property_count + 1 entries whose first entry is "rule"
\* with the rule name, followed by every property exactly once, in ascending
\* lexicographic order of the keys.
C11_SerializedForm ==
    Returned("serialize") =>
        LET rule == operation.rule
            result == operation.result
            properties == serialize_to_properties(rule)
            count == Cardinality(DOMAIN properties)
        IN  /\ result.kind = "Str" <=> properties = RuleProperties_new
            /\ result.kind = "Str" <=> ~has_properties(rule)
            /\ result.kind \in {"Str", "Map"}
            /\ result.kind = "Str" => result.value = get_name(rule.type)
            /\ result.kind = "Map" =>
                 /\ result.len = count + 1
                 /\ Len(result.entries) = count + 1
                 /\ result.entries[1] = <<"rule", JsonString(get_name(rule.type))>>
                 /\ \A key \in DOMAIN properties :
                      Cardinality({i \in 2..Len(result.entries) :
                                     result.entries[i][1] = key}) = 1
                 /\ \A i \in 2..Len(result.entries) :
                      /\ result.entries[i][1] \in DOMAIN properties
                      /\ result.entries[i][2] =
                           RulePropertyValue_serialize(properties[result.entries[i][1]])
                 /\ \A i, j \in 2..Len(result.entries) :
                      i < j => Rank(result.entries[i][1]) < Rank(result.entries[j][1])

C11_Witness ==
    /\ Returned("serialize")
    /\ operation.rule.type = "RenameVariables"
    /\ DOMAIN operation.rule.properties = {"a", "ab", "b"}
    /\ operation.result.kind = "Map"
    /\ Len(operation.result.entries) = 4
    /\ operation.result.entries[2][1] = "a"
    /\ operation.result.entries[4] = <<"b", JsonNull>>

\* the entries of a map whose key is "rule", those that repeat "rule", those
\* that repeat a property key, and a first "rule" whose value is no string
RuleKeys(map) == {i \in DOMAIN map : map[i][1] = "rule"}
SecondRules(map) == {i \in RuleKeys(map) : \E j \in RuleKeys(map) : j < i}
Repeats(map) ==
    {i \in DOMAIN map \ RuleKeys(map) : \E j \in 1..(i - 1) : map[j][1] = map[i][1]}
IllTyped(map) ==
    {i \in RuleKeys(map) \ SecondRules(map) : map[i][2].json # "string"}
Faults(map) == SecondRules(map) \cup Repeats(map) \cup IllTyped(map)
FirstFault(map) == CHOOSE i \in Faults(map) : \A j \in Faults(map) : i <= j

\* every key other than "rule", with its value
PropertiesOf(map) ==
    [key \in {map[i][1] : i \in DOMAIN map \ RuleKeys(map)} |->
        RulePropertyValue_deserialize(
            map[CHOOSE i \in DOMAIN map : map[i][1] = key][2])]

\* C12: deserializing a map succeeds only if "rule" occurs exactly once and
\* no property key occurs twice.  Reading the entries in order, a second
\* "rule" yields duplicate_field("rule"), a property key met a second time
\* yields a custom error naming the property, and a map read to its end
\* without "rule" yields missing_field("rule"); an error produces no rule.
\* Otherwise the keys other than "rule", and only they, are the property map
\* handed to configure.
C12_DeserializeMap ==
    (Returned("deserialize") /\ operation.document.kind = "Map") =>
        LET map == operation.document.entries
            result == operation.result
        IN  /\ result.kind \in {"Ok", "Err"}
            /\ result.kind = "Ok" =>
                 /\ Cardinality(RuleKeys(map)) = 1
                 /\ Repeats(map) = {}
                 /\ result.value.type = "RemoveFunctionCallParens"
                      => PropertiesOf(map) = RuleProperties_new
                 /\ result.value.type # "RemoveFunctionCallParens"
                      => result.value.properties = PropertiesOf(map)
            /\ Cardinality(RuleKeys(map)) # 1 => result.kind = "Err"
            /\ Repeats(map) # {} => result.kind = "Err"
            /\ Faults(map) # {} =>
                 LET first == FirstFault(map) IN
                 /\ first \in SecondRules(map) => result = Err(duplicate_field("rule"))
                 /\ first \in Repeats(map) =>
                      /\ result.kind = "Err"
                      /\ result.error.error = "custom"
                      /\ result.error.field = map[first][1]
            /\ (Faults(map) = {} /\ RuleKeys(map) = {}) =>
                 result = Err(missing_field("rule"))
            /\ (Faults(map) = {} /\ RuleKeys(map) # {}) =>
                 result \in Construct(map[CHOOSE i \in RuleKeys(map) : TRUE][2].text,
                                      PropertiesOf(map))

C12_Witness ==
    /\ Returned("deserialize")
    /\ operation.document.kind = "Map"
    /\ Len(operation.document.entries) = 3
    /\ operation.document.entries[1] = <<"rule", JsonString(RENAME_VARIABLES_RULE_NAME)>>
    /\ operation.document.entries[2][1] = "a"
    /\ operation.document.entries[3][1] = "rule"
    /\ operation.result = Err(duplicate_field("rule"))

RegisteredNames ==
    {COMPUTE_EXPRESSIONS_RULE_NAME, CONVERT_INDEX_TO_FIELD_RULE_NAME,
     CONVERT_LOCAL_FUNCTION_TO_ASSIGN_RULE_NAME, GROUP_LOCAL_ASSIGNMENT,
     INJECT_GLOBAL_VALUE_RULE_NAME, REMOVE_COMMENTS_RULE_NAME, REMOVE_EMPTY_DO_RULE_NAME,
     REMOVE_FUNCTION_CALL_PARENS, REMOVE_METHOD_DEFINITION_RULE_NAME,
     REMOVE_SPACES_RULE_NAME, REMOVE_UNUSED_IF_BRANCH_RULE_NAME,
     REMOVE_UNUSED_WHILE_RULE_NAME, RENAME_VARIABLES_RULE_NAME}

\* the error of a name that is not registered, as deserialization reports it
InvalidName(result, name) ==
    /\ result.kind = "Err"
    /\ result.error.error = "custom"
    /\ result.error.message = "invalid rule name: {}"
    /\ result.error.field = name

\* the name a deserialized document asks for, None if it gets to ask for none
Requested(document) ==
    CASE document.kind = "Str" -> Some(document.value)
      [] document.kind = "Map" /\ Faults(document.entries) = {}
           /\ RuleKeys(document.entries) # {} ->
            Some(document.entries[CHOOSE i \in RuleKeys(document.entries) : TRUE][2].text)
      [] OTHER -> None

\* C14: resolving a name (from_str, the string form and the "rule" value of
\* the map form of deserialization) succeeds exactly for the registered
\* names, and then yields the default rule whose get_name is that name; any
\* other name yields an error carrying the name, and no rule.
C14_ResolveName ==
    /\ Returned("from_str") =>
         LET string == operation.string
             result == operation.result
         IN  /\ result.kind = "Ok" <=> string \in RegisteredNames
             /\ result.kind = "Ok" =>
                  /\ get_name(result.value.type) = string
                  /\ result.value = Default(result.value.type)
             /\ result.kind # "Ok" =>
                  /\ result.kind = "Err"
                  /\ result.error.field = string
    /\ (Returned("deserialize") /\ Requested(operation.document) # None) =>
         LET name == Requested(operation.document)[1]
             result == operation.result
         IN  /\ InvalidName(result, name) <=> name \notin RegisteredNames
             /\ name \notin RegisteredNames => result.kind = "Err"
             /\ result.kind = "Ok" => get_name(result.value.type) = name
             /\ (result.kind = "Ok" /\ operation.document.kind = "Str") =>
                  result.value = Default(result.value.type)

C14_Witness ==
    /\ Returned("deserialize")
    /\ operation.document.kind = "Map"
    /\ Requested(operation.document) = Some("unknown_rule")
    /\ Len(operation.document.entries) = 2
    /\ InvalidName(operation.result, "unknown_rule")

\* C15: configure of a rule that takes no properties returns Ok for the empty
\* map and, for any other map, Err(UnexpectedProperty(k)) with k a key of the
\* map; deserializing a map that gives such a rule a property fails.
C15_NoProperties ==
    /\ ((Returned("configure") /\ operation.rule.type = "RemoveFunctionCallParens")
        \/ Returned("verify_no_rule_properties")) =>
         LET properties == operation.properties
             result == operation.result
         IN  /\ properties = RuleProperties_new => result = Ok(<<>>)
             /\ properties # RuleProperties_new =>
                  /\ result.kind = "Err"
                  /\ result.error.error = "UnexpectedProperty"
                  /\ result.error.field \in DOMAIN properties
    /\ (Returned("configure") /\ operation.rule.type = "RemoveFunctionCallParens") =>
         operation.rule = Default("RemoveFunctionCallParens")
    /\ (/\ Returned("deserialize")
        /\ Requested(operation.document) = Some(REMOVE_FUNCTION_CALL_PARENS)
        /\ operation.document.kind = "Map"
        /\ Len(operation.document.entries) > 1) =>
         /\ operation.result.kind = "Err"
         /\ operation.result.error.message = "unexpected field '{}'"
         /\ \E i \in DOMAIN operation.document.entries :
              /\ operation.document.entries[i][1] # "rule"
              /\ operation.document.entries[i][1] = operation.result.error.field

C15_Witness ==
    /\ Returned("configure")
    /\ operation.rule.type = "RemoveFunctionCallParens"
    /\ DOMAIN operation.properties = {"a", "b"}
    /\ operation.result = Err(UnexpectedProperty("b"))

-----------------------------------------------------------------------------
(* Block: nodes/block.rs *)

Block_new(statements, last_statement) == Block(statements, last_statement)
Block_default == Block_new(<<>>, None)

with_statement(self, statement) ==
    [self EXCEPT !.statements = Append(@, statement)]

with_last_statement(self, last_statement) ==
    [self EXCEPT !.last_statement = Some(last_statement)]

\* is_empty that looks at the statements alone
is_empty_statements_only(self) == self.statements = <<>>

is_empty(self) == self.last_statement = None /\ self.statements = <<>>

\* Vec::remove(i), i counted from 0
remove(vec, i) == [j \in 1..(Len(vec) - 1) |-> IF j <= i THEN vec[j] ELSE vec[j + 1]]

\* what f does with the &mut Statement it is handed, and what it returns
Answer(keep, rewrite) == [keep |-> keep, rewrite |-> rewrite]
Answers == {Answer(keep, rewrite) : keep \in BOOLEAN, rewrite \in BOOLEAN}
Rewritten(handed, answer) == IF answer.rewrite THEN NewStatement ELSE handed

\* the loop of filter_statements from index i on; answers[k] is what f does
\* at its k-th call, calls are the statements f was handed so far
RECURSIVE filter_loop_skipping(_, _, _, _)
filter_loop_skipping(statements, i, answers, calls) ==
    IF i >= Len(statements) THEN [statements |-> statements, calls |-> calls]
    ELSE LET answer == answers[Len(calls) + 1]
             handed == statements[i + 1]
             left == [statements EXCEPT ![i + 1] = Rewritten(handed, answer)]
         IN  IF answer.keep
             THEN filter_loop_skipping(left, i + 1, answers, Append(calls, handed))
             ELSE filter_loop_skipping(remove(left, i), i + 1, answers,
                                       Append(calls, handed))

RECURSIVE filter_loop(_, _, _, _)
filter_loop(statements, i, answers, calls) ==
    IF i = Len(statements) THEN [statements |-> statements, calls |-> calls]
    ELSE LET answer == answers[Len(calls) + 1]
             handed == statements[i + 1]
             left == [statements EXCEPT ![i + 1] = Rewritten(handed, answer)]
         IN  IF answer.keep
             THEN filter_loop(left, i + 1, answers, Append(calls, handed))
             ELSE filter_loop(remove(left, i), i, answers, Append(calls, handed))

filter_statements(self, answers) ==
    LET filtered == filter_loop(self.statements, 0, answers, <<>>) IN
    [self |-> [self EXCEPT !.statements = filtered.statements],
     calls |-> filtered.calls]

\* clear that leaves the last statement
clear_statements_only(self) == [self EXCEPT !.statements = <<>>]

clear(self) == [self EXCEPT !.statements = <<>>, !.last_statement = None]

\* the statements and last statements blocks are built from
BlockStatements == {Do(EmptyBlock), LocalFunction("f", EmptyBlock), NewStatement}
BlockLastStatements == {Break, Return(<<>>)}
StatementVecs == SeqsUpTo(BlockStatements, MaxLen)
LastStatementOptions == {None} \cup {Some(last) : last \in BlockLastStatements}

InitBlock ==
    /\ input = EmptyBlock
    /\ tree = input
    /\ processor = "RemoveFunctionCallParens"
    /\ stack = <<>>
    /\ log = <<>>
    /\ given = FunctionCall(Prefix0, Tuple(<<>>))
    /\ call = given
    /\ hooked = FALSE
    /\ rules = <<>>
    /\ \/ /\ operation = [fn |-> "default"]
          /\ a_block = Block_default
       \/ \E statements \in StatementVecs, last_statement \in LastStatementOptions :
            /\ operation = [fn |-> "new"]
            /\ a_block = Block_new(statements, last_statement)
    /\ local_assign = LocalAssign(<<"a">>, <<>>, None)

BlockStep(fn, self) ==
    /\ operation' = fn
    /\ a_block' = self
    /\ UNCHANGED <<input, tree, processor, stack, log, given, call, hooked, rules,
                   local_assign>>

call_with_statement ==
    /\ Len(a_block.statements) < MaxLen
    /\ \E statement \in BlockStatements :
         BlockStep([fn |-> "with_statement"], with_statement(a_block, statement))

call_with_last_statement ==
    \E last_statement \in BlockLastStatements :
        BlockStep([fn |-> "with_last_statement"],
                  with_last_statement(a_block, last_statement))

call_filter_statements ==
    \E answers \in [1..Len(a_block.statements) -> Answers] :
        LET filtered == filter_statements(a_block, answers) IN
        BlockStep([fn |-> "filter_statements", before |-> a_block,
                   answers |-> answers, calls |-> filtered.calls],
                  filtered.self)

\* the caller writes through the &mut Vec<Statement> it got
call_mutate_statements ==
    \E statements \in StatementVecs :
        BlockStep([fn |-> "mutate_statements"],
                  [a_block EXCEPT !.statements = statements])

\* the caller writes through the &mut Option<LastStatement> it got
call_mutate_last_statement ==
    \E last_statement \in LastStatementOptions :
        BlockStep([fn |-> "mutate_last_statement"],
                  [a_block EXCEPT !.last_statement = last_statement])

\* the caller writes through both references of mutate_all_statements
call_mutate_all_statements ==
    \E statements \in StatementVecs, last_statement \in LastStatementOptions :
        BlockStep([fn |-> "mutate_all_statements"],
                  [a_block EXCEPT !.statements = statements,
                                  !.last_statement = last_statement])

call_clear ==
    BlockStep([fn |-> "clear", before |-> a_block], clear(a_block))

NextBlock ==
    \/ call_with_statement
    \/ call_with_last_statement
    \/ call_filter_statements
    \/ call_mutate_statements
    \/ call_mutate_last_statement
    \/ call_mutate_all_statements
    \/ call_clear

SpecBlock == InitBlock /\ [][NextBlock]_vars

\* C16: in every state reached through the constructors and mutators of
\* Block, is_empty() is true exactly when the block has no statement and no
\* last statement.
C16_IsEmpty ==
    is_empty(a_block) <=> (Len(a_block.statements) = 0 /\ Len(a_block.last_statement) = 0)

C16_Witness ==
    /\ operation.fn = "filter_statements"
    /\ operation.before.statements # <<>>
    /\ a_block.statements = <<>>
    /\ a_block.last_statement = Some(Break)
    /\ ~is_empty(a_block)

\* C17: after clear(), whatever the block held, it has no statement and no
\* last statement, and is_empty() holds.
C17_Clear ==
    operation.fn = "clear" =>
        /\ Len(a_block.statements) = 0
        /\ a_block.last_statement = None
        /\ is_empty(a_block)

C17_Witness ==
    /\ operation.fn = "clear"
    /\ Len(operation.before.statements) = MaxLen
    /\ operation.before.last_statement = Some(Return(<<>>))
    /\ is_empty(a_block)

\* the indices of the statements f answered true for, and the statements at
\* these indices, in order
RECURSIVE Retained(_, _, _)
Retained(statements, answers, i) ==
    IF i > Len(statements) THEN <<>>
    ELSE (IF answers[i].keep THEN <<Rewritten(statements[i], answers[i])>> ELSE <<>>)
         \o Retained(statements, answers, i + 1)

\* C18: filter_statements(f) calls f exactly once on each original
\* statement, in the original order, and ends with the statements for which
\* f returned true, in their original relative order (each as f left it, and
\* equal to the original when f did not write to it); the last statement is
\* unchanged.
C18_FilterStatements ==
    operation.fn = "filter_statements" =>
        LET original == operation.before.statements
            answers == operation.answers
        IN  /\ operation.calls = original
            /\ a_block.statements = Retained(original, answers, 1)
            /\ Len(a_block.statements) =
                 Cardinality({i \in DOMAIN answers : answers[i].keep})
            /\ a_block.last_statement = operation.before.last_statement

C18_Witness ==
    /\ operation.fn = "filter_statements"
    /\ Len(operation.before.statements) = MaxLen
    /\ ~operation.answers[1].keep /\ ~operation.answers[1].rewrite
    /\ operation.answers[2].keep /\ ~operation.answers[2].rewrite
    /\ operation.before.statements[1] # operation.before.statements[2]
    /\ a_block.statements = <<operation.before.statements[2]>>
    /\ operation.before.last_statement = Some(Break)

-----------------------------------------------------------------------------
(* LocalAssignStatement: nodes/statements/local_assign.rs *)

LocalAssignStatement_new(variables, values) == LocalAssign(variables, values, None)
from_variable(variable) == LocalAssign(<<variable>>, <<>>, None)
with_tokens(self, tokens) == [self EXCEPT !.tokens = Some(tokens)]
with_variable(self, variable) == [self EXCEPT !.variables = Append(@, variable)]
with_value(self, value) == [self EXCEPT !.values = Append(@, value)]

append_assignment(self, variable, value) ==
    [self EXCEPT !.variables = Append(@, variable), !.values = Append(@, value)]

append_variables(self, variables) == [self EXCEPT !.variables = @ \o variables]
extend_values(self, iter) == [self EXCEPT !.values = @ \o iter]

\* append_values that drops the stored tokens
append_values_without_tokens(self, values) ==
    [self EXCEPT !.values = @ \o values, !.tokens = None]

append_values(self, values) == [self EXCEPT !.values = @ \o values]
value_count(self) == Len(self.values)
variable_count(self) == Len(self.variables)
has_values(self) == self.values # <<>>
get_tokens(self) == self.tokens

\* what the callback does with the &mut Identifier and the Option<&mut
\* Expression> it is handed: it leaves them, or writes to both
Written(self, i, next, write) ==
    IF ~write THEN self
    ELSE [self EXCEPT !.variables[i] = "written",
                      !.values = IF next <= Len(@)
                                 THEN [@ EXCEPT ![next] = NewExpression] ELSE @]

\* for_each_assignment that stops when the values run out
RECURSIVE for_each_loop_zip(_, _, _, _)
for_each_loop_zip(self, i, writes, calls) ==
    IF i > Len(self.variables) \/ i > Len(self.values)
    THEN [self |-> self, calls |-> calls]
    ELSE for_each_loop_zip(Written(self, i, i, writes[i]), i + 1, writes,
                           Append(calls, <<self.variables[i], Some(self.values[i])>>))

\* the for_each of for_each_assignment from the i-th variable on: values.next()
\* is the i-th value, or None once the iterator is exhausted
RECURSIVE for_each_loop(_, _, _, _)
for_each_loop(self, i, writes, calls) ==
    IF i > Len(self.variables) THEN [self |-> self, calls |-> calls]
    ELSE LET next == IF i <= Len(self.values) THEN Some(self.values[i]) ELSE None
         IN  for_each_loop(Written(self, i, i, writes[i]), i + 1, writes,
                           Append(calls, <<self.variables[i], next>>))

for_each_assignment(self, writes) == for_each_loop(self, 1, writes, <<>>)

\* the identifiers and expressions statements are built from
AssignVariables == {"a", "b"}
AssignValues == {Number(1), True}
VariableVecs == SeqsUpTo(AssignVariables, MaxLen)
ValueVecs == SeqsUpTo(AssignValues, MaxLen)

InitLocalAssign ==
    /\ input = EmptyBlock
    /\ tree = input
    /\ processor = "RemoveFunctionCallParens"
    /\ stack = <<>>
    /\ log = <<>>
    /\ given = FunctionCall(Prefix0, Tuple(<<>>))
    /\ call = given
    /\ hooked = FALSE
    /\ rules = <<>>
    /\ a_block = Block(<<>>, None)
    /\ \/ \E variables \in VariableVecs, values \in ValueVecs :
            /\ operation = [fn |-> "new"]
            /\ local_assign = LocalAssignStatement_new(variables, values)
       \/ \E variable \in AssignVariables :
            /\ operation = [fn |-> "from_variable"]
            /\ local_assign = from_variable(variable)

LocalAssignStep(fn, self) ==
    /\ operation' = fn
    /\ local_assign' = self
    /\ UNCHANGED <<input, tree, processor, stack, log, given, call, hooked, rules,
                   a_block>>

\* the lists stay within the bound
Fits(self) == Len(self.variables) <= MaxLen /\ Len(self.values) <= MaxLen

call_with_tokens ==
    LocalAssignStep([fn |-> "with_tokens", before |-> local_assign],
                    with_tokens(local_assign, LocalAssignTokens))

call_with_variable ==
    \E variable \in AssignVariables :
        /\ Fits(with_variable(local_assign, variable))
        /\ LocalAssignStep([fn |-> "with_variable", before |-> local_assign],
                           with_variable(local_assign, variable))

call_with_value ==
    \E value \in AssignValues :
        /\ Fits(with_value(local_assign, value))
        /\ LocalAssignStep([fn |-> "with_value", before |-> local_assign],
                           with_value(local_assign, value))

call_append_assignment ==
    \E variable \in AssignVariables, value \in AssignValues :
        /\ Fits(append_assignment(local_assign, variable, value))
        /\ LocalAssignStep([fn |-> "append_assignment", before |-> local_assign,
                            variable |-> variable, value |-> value],
                           append_assignment(local_assign, variable, value))

call_append_variables ==
    \E variables \in VariableVecs :
        /\ Fits(append_variables(local_assign, variables))
        /\ LocalAssignStep([fn |-> "append_variables", before |-> local_assign],
                           append_variables(local_assign, variables))

call_extend_values ==
    \E iter \in ValueVecs :
        /\ Fits(extend_values(local_assign, iter))
        /\ LocalAssignStep([fn |-> "extend_values", before |-> local_assign],
                           extend_values(local_assign, iter))

call_append_values ==
    \E values \in ValueVecs :
        /\ Fits(append_values(local_assign, values))
        /\ LocalAssignStep([fn |-> "append_values", before |-> local_assign],
                           append_values(local_assign, values))

\* the caller writes through the &mut Vec<Expression> it got
call_mutate_values ==
    \E values \in ValueVecs :
        LocalAssignStep([fn |-> "mutate_values", before |-> local_assign],
                        [local_assign EXCEPT !.values = values])

call_for_each_assignment ==
    \E writes \in [1..Len(local_assign.variables) -> BOOLEAN] :
        LET done == for_each_assignment(local_assign, writes) IN
        LocalAssignStep([fn |-> "for_each_assignment", before |-> local_assign,
                         writes |-> writes, calls |-> done.calls],
                        done.self)

NextLocalAssign ==
    \/ call_with_tokens
    \/ call_with_variable
    \/ call_with_value
    \/ call_append_assignment
    \/ call_append_variables
    \/ call_extend_values
    \/ call_append_values
    \/ call_mutate_values
    \/ call_for_each_assignment

SpecLocalAssign == InitLocalAssign /\ [][NextLocalAssign]_vars

\* C19: for_each_assignment invokes the callback once per variable, in list
\* order; the i-th call gets the i-th value when there is one and no value
\* otherwise, so values beyond the variables are never delivered; both lists
\* keep their lengths.
C19_ForEachAssignment ==
    operation.fn = "for_each_assignment" =>
        LET before == operation.before
            calls == operation.calls
        IN  /\ Len(calls) = variable_count(before)
            /\ \A i \in DOMAIN calls :
                 /\ calls[i][1] = before.variables[i]
                 /\ i <= value_count(before) => calls[i][2] = Some(before.values[i])
                 /\ i > value_count(before) => calls[i][2] = None
            /\ variable_count(local_assign) = variable_count(before)
            /\ value_count(local_assign) = value_count(before)
            /\ \A i \in DOMAIN before.values :
                 i > variable_count(before) => local_assign.values[i] = before.values[i]

C19_Witness ==
    /\ operation.fn = "for_each_assignment"
    /\ variable_count(operation.before) = 2
    /\ value_count(operation.before) = 1
    /\ operation.calls[1][2] # None
    /\ operation.calls[2][2] = None
    /\ operation.writes[1]

\* C20 as claimed: after append_assignment(v, e) on any statement, v and e
\* are at the same position of their lists, and for_each_assignment delivers
\* v together with e.
C20_AppendedPair ==
    operation.fn = "append_assignment" =>
        LET calls == for_each_assignment(local_assign,
                        [i \in 1..variable_count(local_assign) |-> FALSE]).calls
        IN  /\ variable_count(local_assign) = value_count(local_assign)
            /\ calls[variable_count(local_assign)] =
                 <<operation.variable, Some(operation.value)>>

\* C21 as claimed: every statement obtained from new or from_variable and the
\* operations with_variable, with_value, append_assignment, append_variables,
\* append_values, extend_values and mutate_values has at least one variable.
C21_AtLeastOneVariable == variable_count(local_assign) >= 1

-----------------------------------------------------------------------------
(* RemoveFunctionCallParens::process, rules/call_parens.rs: the rule walks *)
(* the block with its Processor; the specification applies it to a block    *)
(* and then to its own result.                                              *)

\* a call the hook rewrites
ParensCall == FunctionCall(Prefix0, Tuple(<<String("s")>>))
TableCall == FunctionCall(Prefix0, Tuple(<<Table(<<EntryValue(ParensCall)>>)>>))

\* blocks with such a call at the places a statement or markup keeps an
\* expression, besides the places Trees has
CallStatements ==
    {Assign(<<Field(ParensCall, "k")>>, <<ParensCall>>),
     Assign(<<Index(Prefix0, ParensCall)>>, <<True>>),
     FunctionCall(Prefix0, Tuple(<<ParensCall>>)),
     FunctionCall(Prefix0, Tuple(<<ParensCall, TableCall>>)),
     FunctionCall(ParensCall, Tuple(<<TableCall>>)),
     FunctionCall(Parenthese(ParensCall), Tuple(<<>>)),
     GenericFor(<<"k">>, <<ParensCall>>, Block(<<ParensCall>>, None)),
     If(<<Branch(ParensCall, Block(<<TableCall>>, Some(Break)))>>,
        Some(Block(<<ParensCall>>, None))),
     NumericFor("i", ParensCall, ParensCall, Some(ParensCall), EmptyBlock),
     Repeat(Block(<<ParensCall>>, None), ParensCall),
     While(Block(<<ParensCall>>, Some(Return(<<ParensCall>>))), ParensCall),
     FunctionStatement("f", Block(<<ParensCall>>, None)),
     LocalFunction("f", Block(<<Do(Block(<<TableCall>>, None))>>, None)),
     LocalAssign(<<"a">>, <<Binary(ParensCall, Unary(ParensCall))>>, None),
     LocalAssign(<<"a">>, <<Table(<<EntryIndex(ParensCall, TableCall)>>)>>, None),
     LocalAssign(<<"a">>,
                 <<LUX(LUXElementOf(Element(
                      <<Spread(ParensCall), Named(Some(LuaExpression(ParensCall)))>>,
                      <<ExpandedExpression(ParensCall),
                        ChildExpression(Some(TableCall))>>)))>>, None)}

CallTrees ==
    {Block(<<s>>, None) : s \in CallStatements}
    \cup {Block(<<>>, Some(Return(<<ParensCall, TableCall>>)))}

InitProcess ==
    /\ input \in Trees \cup CallTrees
    /\ tree = input
    /\ processor = "RemoveFunctionCallParens"
    /\ stack = <<Task("visit_block", <<>>)>>
    /\ log = <<>>
    /\ given = FunctionCall(Prefix0, Tuple(<<>>))
    /\ call = given
    /\ hooked = FALSE
    /\ rules = <<>>
    /\ operation = [fn |-> "process", pass |-> 1, first |-> input]
    /\ a_block = Block(<<>>, None)
    /\ local_assign = LocalAssign(<<"a">>, <<>>, None)

\* process returned, and is called on the block it left
RemoveFunctionCallParens_process ==
    /\ Done
    /\ operation.pass = 1
    /\ operation' = [operation EXCEPT !.pass = 2, !.first = tree]
    /\ stack' = <<Task("visit_block", <<>>)>>
    /\ log' = <<>>
    /\ UNCHANGED <<input, tree, processor, given, call, hooked, rules, a_block,
                   local_assign>>

NextProcess == Next \/ RemoveFunctionCallParens_process

SpecProcess == InitProcess /\ [][NextProcess]_vars

Processed(pass) == operation.fn = "process" /\ operation.pass = pass /\ Done

\* C22: applying remove_function_call_parens to the result of a previous
\* application of the rule yields a tree equal to that result.
C22_Idempotent == Processed(2) => tree = operation.first

C22_Witness ==
    /\ Processed(2)
    /\ operation.first # input
    /\ tree = operation.first

\* the number, order and kinds of the statements of a block, and of its
\* terminal statement
Shape(block) ==
    [statements |-> [i \in DOMAIN block.statements |-> block.statements[i].kind],
     last_statement |->
        [i \in DOMAIN block.last_statement |-> block.last_statement[i].kind]]

\* the shapes of the blocks of a node, in the order the node holds them
RECURSIVE BlockShapes(_, _), ShapesFrom(_, _, _)
BlockShapes(node, type) ==
    (IF type = "Block" THEN <<Shape(node)>> ELSE <<>>)
    \o ShapesFrom(node, TypedChildren(type, node), 1)
ShapesFrom(node, children, i) ==
    IF i > Len(children) THEN <<>>
    ELSE BlockShapes(Child(node, children[i][1]), children[i][2])
         \o ShapesFrom(node, children, i + 1)

\* a step that changes the tree is the hook of a call, and it changes the
\* arguments of that call only
ArgumentsOnly ==
    tree' # tree =>
        /\ Visiting("visit_function_call")
        /\ tree' = Set(tree, Sub(Here, F("arguments")),
                       Get(tree', Sub(Here, F("arguments"))))

SameBlocks ==
    Processed(1) =>
        /\ input = EmptyBlock => tree = EmptyBlock
        /\ input = BreakBlock => tree = BreakBlock
        /\ BlockShapes(tree, "Block") = BlockShapes(input, "Block")

\* C23: process changes nothing but the arguments of calls: an empty block
\* stays empty, a block that is only a Break is unchanged, and every block of
\* the tree has the same number, order and kinds of statements and the same
\* terminal statement before and after.
C23_Frame == []SameBlocks /\ [][ArgumentsOnly]_vars

C23_Witness ==
    /\ Processed(1)
    /\ tree # input
    /\ Len(input.statements) = 2
    /\ input.last_statement = Some(Break)
    /\ Len(BlockShapes(input, "Block")) > 1

\* the function calls of a block, as paths: Statement::Call, Expression::Call
\* and Prefix::Call
CallsOf(block) ==
    {n[1] : n \in {m \in Nodes(block) :
                     /\ m[2] \in {"Statement", "Expression", "Prefix"}
                     /\ Get(block, m[1]).kind = "Call"}}

\* arguments the rule is there to rewrite
InParens(arguments) ==
    /\ arguments.kind = "Tuple"
    /\ Len(arguments.expressions) = 1
    /\ arguments.expressions[1].kind \in {"String", "Table"}

\* C24: after one run of process, no function call of the tree has a
\* one-element Tuple holding a String or a Table as its arguments.
C24_NoParensLeft ==
    Processed(1) => \A path \in CallsOf(tree) : ~InParens(Get(tree, path).arguments)

\* a call in the entries of a table that was itself taken out of its
\* parentheses, a call used as a prefix, one in the arguments of another call,
\* and one in a function body were rewritten
C24_Witness ==
    /\ Processed(1)
    /\ input = Block(<<FunctionCall(ParensCall, Tuple(<<TableCall>>))>>, None)
    /\ Cardinality({path \in CallsOf(input) : InParens(Get(input, path).arguments)}) = 3
    /\ Cardinality(CallsOf(tree)) = 4

-----------------------------------------------------------------------------
(* Termination of the walk.  A visit function that was called runs: the    *)
(* walk is a chain of calls of one thread, so a pending visit is taken.     *)

SpecWalk == Init /\ [][Next]_vars /\ WF_vars(Next)

\* processors whose hooks leave the node as it is or make it smaller
BoundedProcessors == {"NodeProcessor", "RemoveFunctionCallParens"}

\* the visits a step of the walk has made pending
Pushed == SubSeq(stack', 1, Len(stack') - Len(stack) + 1)

\* every visit a visit function makes is on the node it was called on or
\* inside it, and a visit by the same function is strictly inside it
StrictSubNode ==
    processor \in BoundedProcessors /\ stack # <<>> =>
        \A i \in DOMAIN Pushed :
            /\ IsPrefix(Here, Pushed[i].path)
            /\ Pushed[i].fn = Head(stack).fn => Len(Pushed[i].path) > Len(Here)
            /\ Pushed[i].path = Here => Len(Pushed) = 1

\* no node receives more than three hooks
HookBound == Len(log) <= 3 * Cardinality(Nodes(input))

\* C25: for every tree and every processor whose hooks do not grow the
\* tree, visit_block terminates: every recursive visit is on a strict
\* sub-node of the node being visited, and the number of hooks is bounded.
C25_Terminates ==
    /\ processor \in BoundedProcessors => <>Done
    /\ [][StrictSubNode]_vars
    /\ [](processor \in BoundedProcessors => HookBound)

C25_Witness ==
    /\ Done
    /\ processor = "RemoveFunctionCallParens"
    /\ tree # input
    /\ Len(log) > Cardinality(Nodes(input))
    /\ \E i \in DOMAIN log : Len(log[i][2]) >= 6

-----------------------------------------------------------------------------
(* The trivia of a LocalAssignStatement *)

StructuralAppends ==
    {"append_assignment", "append_variables", "append_values", "extend_values"}

\* the stored commas are those of a statement with that many variables and values
InStep(self) ==
    self.tokens # None =>
        /\ Len(self.tokens[1].variable_commas) = variable_count(self) - 1
        /\ Len(self.tokens[1].value_commas) =
             IF value_count(self) = 0 THEN 0 ELSE value_count(self) - 1

\* C26: append_assignment, append_variables, append_values and extend_values
\* leave the stored tokens untouched: get_tokens() returns the same value
\* before and after, whatever the new counts of variables and values.
C26_AppendsKeepTokens ==
    operation.fn \in StructuralAppends =>
        get_tokens(local_assign) = get_tokens(operation.before)

\* a statement whose tokens were in step gets values appended and its
\* commas no longer match its counts
C26_Witness ==
    /\ operation.fn = "append_values"
    /\ get_tokens(operation.before) = Some(LocalAssignTokens)
    /\ InStep(operation.before)
    /\ value_count(local_assign) > value_count(operation.before)
    /\ ~InStep(local_assign)

====
